---- MODULE Spec2Model ----
(***************************************************************************)
(* Model of the tmt orchestration engine: the step state machine           *)
(* (Execute / Finish wake and go), the plan orchestrator (Plan.go) and the *)
(* exit code algorithm of the run (Run.finish).                            *)
(*                                                                         *)
(* Three specifications share the variables:                               *)
(*   Spec        one Plan.go, statement by statement                       *)
(*   SpecStep    wake() / go() called directly on the Execute and the      *)
(*               Finish step of one plan, in any order                     *)
(*   SpecFinish  Run.finish over the results of the plans of a run         *)
(***************************************************************************)
EXTENDS Integers, Sequences, FiniteSets, TLC

\* ------------------------------------------------------------------ bounds

MaxTests == 2       \* tests the discover step can yield
MaxGuests == 2      \* guests the provision step can yield
MaxData == 2        \* plugin configurations of the finish step
MaxStandalone == 2  \* standalone plugins a step can report
MaxCalls == 3       \* direct method calls in SpecStep
MaxPlans == 2       \* plans of a run in SpecFinish
MaxResults == 1     \* results per plan in SpecFinish

\* --------------------------------------------------------------- constants

\* tmt.steps.STEPS, the fixed order of the six stages
STEPS == <<"discover", "provision", "prepare", "execute", "report", "finish">>

StepNames == {STEPS[n] : n \in 1..Len(STEPS)}

\* the five outcome kinds counted by Result.total
Outcomes == {"pass", "fail", "info", "warn", "error"}

\* outcomes the executor is let to report inside Plan.go and SpecStep
RunOutcomes == {"pass", "fail"}

VARIABLES
    steps,      \* context.obj.steps: the names of the enabled steps
    opt,        \* [dry, executeDry, remove]: opt('dry'), Execute._opt('dry')
                \* and Run.remove
    data,       \* step.data: [execute |-> number of configurations,
                \*             finish |-> is_bare flag of each configuration]
    status,     \* Step._status of each step (in memory)
    phases,     \* Step._phases of each step (in memory)
    tests,      \* number of tests held by the discover step
    guests,     \* provisioned guests, each "up", "stopped" or "removed"
    results,    \* Execute._results
    stepYaml,   \* persisted status of each step: "none" when no step.yaml
    resultsYaml,\* persisted results.yaml: [exists, data]
    pc,         \* position inside Plan.go / the harness
    i,          \* index of the loop over tmt.steps.STEPS
    abort,      \* local variable abort of Plan.go
    exc,        \* exception propagating in Plan.go: [kind, step, op]
    calls,      \* the wake() and go() calls made so far, in order
    ops,        \* phase executions and guest operations, in order
    warned,     \* steps that reported a wake error as a warning
    last,       \* the last method call: [op, step, raised, before]
    plans,      \* SpecFinish: the results of each plan of the run
    exits,      \* the SystemExit codes raised by Run.finish, in order
    plugins,    \* step.plugins_in_standalone_mode of the enabled steps, as
                \* the stand-alone check of Plan.go read it: [checked, cnt]
    cli,        \* the command line options of the run
    run,        \* the fields of the Run object
    runYaml,    \* the persisted run.yaml
    went,       \* the plan.go() calls made by Run.go, in order
    input,      \* the arguments of the function under study
    output      \* what the function returned for input

vars == <<steps, opt, data, status, phases, tests, guests, results, stepYaml,
          resultsYaml, pc, i, abort, exc, calls, ops, warned, last, plans,
          exits, plugins, cli, run, runYaml, went, input, output>>

\* the in-memory and persisted state of the steps
objVars == <<status, phases, tests, guests, results, stepYaml, resultsYaml>>

\* before the stand-alone check of Plan.go
NotChecked == [checked |-> FALSE, cnt |-> <<>>]

\* the plans of the metadata tree of the run, in the order of the tree
TreePlans == <<"/plans/a", "/plans/b">>

PlanNames == {TreePlans[n] : n \in DOMAIN TreePlans}

\* the command line of a run with no option, in a tree of enabled plans.
\* where: the workdir path against the tree root ("noroot": no root,
\* "beside": not under the root, yet its string starts with the root);
\* planOption: one of names, filters, conditions, links, default is given;
\* match: the plans these options select; enabled: the enabled plans;
\* steps: the steps enabled by their subcommand
NoOptions ==
    [where |-> "outside", provisionDry |-> FALSE, planOption |-> FALSE,
     match |-> PlanNames, enabled |-> PlanNames, steps |-> {},
     all |-> FALSE, since |-> "none", until |-> "none", after |-> "none",
     before |-> "none", skip |-> {}, environmentFiles |-> <<>>,
     environment |-> <<>>]

\* the Run object after __init__: no workdir, _plans is None,
\* _environment_from_workdir is empty
NoRun == [workdir |-> FALSE, selected |-> FALSE, plans |-> <<>>,
          environment |-> <<>>]

\* no run.yaml in the workdir
NoFile == [exists |-> FALSE, root |-> FALSE, plans |-> <<>>, steps |-> {},
           environment |-> <<>>, remove |-> FALSE]

\* the run is not part of the behaviour
RunIdle ==
    /\ cli = NoOptions
    /\ run = NoRun
    /\ runYaml = NoFile
    /\ went = <<>>
    /\ input = <<>>
    /\ output = <<>>

NoExc == [kind |-> "none", step |-> "none", op |-> "none"]

Raise(kind, step, op) == [kind |-> kind, step |-> step, op |-> op]

NoCall == [op |-> "none", step |-> "none", raised |-> "none",
           before |-> "none"]

\* the record of a method call: the exception it raised, "none" if it
\* returned, and the status the step had when it was called
Ret(op, step, raised) ==
    [op |-> op, step |-> step, raised |-> raised, before |-> status[step]]

\* ------------------------------------------------------- persisted results

\* dict([(result.name, result.export()) for result in results]): one entry
\* per name, at the place of the first result of that name, holding the
\* last one
RECURSIVE ResultsDict(_)
ResultsDict(rs) ==
    IF rs = <<>> THEN <<>>
    ELSE LET d == ResultsDict(SubSeq(rs, 1, Len(rs) - 1))
             r == rs[Len(rs)]
         IN IF \E n \in DOMAIN d : d[n].name = r.name
            THEN [n \in DOMAIN d |-> IF d[n].name = r.name THEN r ELSE d[n]]
            ELSE Append(d, r)

\* Execute.load: [Result(data, name=test) for test, data in results.items()]
\* when results.yaml is there; the results in memory are kept when it is not
Execute_load ==
    IF resultsYaml.exists THEN resultsYaml.data ELSE results

\* Step.load: the persisted status replaces the one in memory
Step_load(s) ==
    IF stepYaml[s] = "none" THEN status[s] ELSE stepYaml[s]

\* ------------------------------------------------------------ Execute step

\* if len(self.data) > 1: raise SpecificationError
Execute_multiple == data.execute > 1

\* mutant: wake() sets the status to todo whatever it was
WakeStatus_reset(st) == "todo"

\* the tail of wake(): a done step is left alone, any other becomes todo
\* and is saved
WakeStatus(st) == IF st = "done" THEN "done" ELSE "todo"

WakeSaves(st) == st # "done"

\* Execute.wake(); bad: ExecutePlugin.delegate rejects the configuration
Execute_wake(bad) ==
    LET s == "execute"
        st == Step_load(s)
        rs == Execute_load
    IN /\ results' = rs
       /\ UNCHANGED <<tests, guests, ops>>
       /\ IF Execute_multiple \/ bad
          THEN /\ last' = Ret("wake", s, "SpecificationError")
               /\ status' = [status EXCEPT ![s] = st]
               /\ UNCHANGED <<phases, stepYaml, resultsYaml>>
          ELSE /\ last' = Ret("wake", s, "none")
               /\ phases' = [phases EXCEPT ![s] = Append(@, 1)]
               /\ status' = [status EXCEPT ![s] = WakeStatus(st)]
               /\ IF WakeSaves(st)
                  THEN /\ stepYaml' = [stepYaml EXCEPT ![s] = status'[s]]
                       /\ resultsYaml' =
                              [exists |-> TRUE, data |-> ResultsDict(rs)]
                  ELSE UNCHANGED <<stepYaml, resultsYaml>>

\* the phase executions of a go(): for guest in guests: for phase in phases
\* (every phase taken as enabled on every guest)
PhaseRuns(s) ==
    LET P == Len(phases[s])
    IN [r \in 1..(Len(guests) * P) |->
           [op |-> "phase", step |-> s,
            phase |-> phases[s][((r - 1) % P) + 1],
            guest |-> ((r - 1) \div P) + 1]]

\* self._results.extend(phase.results()) after each of k phase executions:
\* one result per discovered test, outs[t] the outcome of test t
RunResults(k, outs) ==
    [n \in 1..(k * tests) |->
        [name |-> ((n - 1) % tests) + 1,
         result |-> outs[((n - 1) % tests) + 1]]]

\* mutant: go() does not look at the status
GoSkips_never(st) == FALSE

\* if self.status() == 'done': ... return
GoSkips(st) == st = "done"

\* mutant: go() does not look at the guests
NoGuests_never == FALSE

\* if not self.plan.provision.guests(): raise ExecuteError
NoGuests == Len(guests) = 0

\* Execute.go(); k phase executions complete, the next one raises unless
\* all of them completed
Execute_go(k, outs) ==
    LET s == "execute"
        runs == PhaseRuns(s)
    IN /\ UNCHANGED <<phases, tests, guests>>
       /\ IF GoSkips(status[s])
          THEN /\ last' = Ret("go", s, "none")
               /\ UNCHANGED <<status, results, stepYaml, resultsYaml, ops>>
          ELSE IF NoGuests
          THEN /\ last' = Ret("go", s, "ExecuteError")
               /\ UNCHANGED <<status, results, stepYaml, resultsYaml, ops>>
          ELSE /\ k \in 0..Len(runs)
               /\ ops' = ops \o SubSeq(runs, 1, k)
               /\ results' = results \o RunResults(k, outs)
               /\ IF k < Len(runs)
                  THEN /\ last' = Ret("go", s, "RunError")
                       /\ UNCHANGED <<status, stepYaml, resultsYaml>>
                  ELSE /\ last' = Ret("go", s, "none")
                       /\ status' = [status EXCEPT ![s] = "done"]
                       /\ stepYaml' = [stepYaml EXCEPT ![s] = status'[s]]
                       /\ resultsYaml' =
                              [exists |-> TRUE, data |-> ResultsDict(results')]

\* ------------------------------------------------------------- Finish step

\* the plugins wake() appends for the first n configurations:
\* if not plugin.data.is_bare: self._phases.append(plugin)
RECURSIVE FinishPlugins(_)
FinishPlugins(n) ==
    IF n = 0 THEN <<>>
    ELSE IF data.finish[n] THEN FinishPlugins(n - 1)
         ELSE Append(FinishPlugins(n - 1), n)

\* Finish.wake(); n configurations are delegated, the next one is rejected
\* unless all of them were
Finish_wake(n) ==
    LET s == "finish"
        st == Step_load(s)
    IN /\ n \in 0..Len(data.finish)
       /\ phases' = [phases EXCEPT ![s] = @ \o FinishPlugins(n)]
       /\ UNCHANGED <<tests, guests, results, resultsYaml, ops>>
       /\ IF n < Len(data.finish)
          THEN /\ last' = Ret("wake", s, "SpecificationError")
               /\ status' = [status EXCEPT ![s] = st]
               /\ UNCHANGED stepYaml
          ELSE /\ last' = Ret("wake", s, "none")
               /\ status' = [status EXCEPT ![s] = WakeStatus(st)]
               /\ IF WakeSaves(st)
                  THEN stepYaml' = [stepYaml EXCEPT ![s] = status'[s]]
                  ELSE UNCHANGED stepYaml

\* the operations of Finish.go on the first k phase executions: the phases
\* on each guest, then guest_copy.pull when the step has phases
FinishRuns(k) ==
    LET s == "finish"
        P == Len(phases[s])
        runs == PhaseRuns(s)
        Pull(g) == [op |-> "pull", step |-> s, phase |-> 0, guest |-> g]
    IN IF P = 0 THEN <<>>
       ELSE [n \in 1..(k + (k \div P)) |->
                IF n % (P + 1) = 0 THEN Pull(n \div (P + 1))
                ELSE runs[n - (n \div (P + 1))]]

\* mutant: the guests are stopped and never removed
StopAndRemove_stop ==
    [n \in 1..Len(guests) |->
        [op |-> "stop", step |-> "finish", phase |-> 0, guest |-> n]]

\* for guest in guests: guest.stop(); guest.remove()
StopAndRemove ==
    [n \in 1..(2 * Len(guests)) |->
        [op |-> IF n % 2 = 1 THEN "stop" ELSE "remove", step |-> "finish",
         phase |-> 0, guest |-> (n + 1) \div 2]]

\* Finish.go(); k phase executions complete, the next one raises unless all
\* of them completed
Finish_go(k) ==
    LET s == "finish"
        runs == PhaseRuns(s)
    IN /\ UNCHANGED <<phases, tests, results, resultsYaml>>
       /\ IF GoSkips(status[s])
          THEN /\ last' = Ret("go", s, "none")
               /\ UNCHANGED <<status, guests, stepYaml, ops>>
          ELSE /\ k \in 0..Len(runs)
               /\ IF k < Len(runs)
                  THEN /\ last' = Ret("go", s, "RunError")
                       /\ ops' = ops \o FinishRuns(k)
                       /\ UNCHANGED <<status, guests, stepYaml>>
                  ELSE /\ last' = Ret("go", s, "none")
                       /\ ops' = ops \o FinishRuns(k) \o StopAndRemove
                       /\ guests' = [g \in DOMAIN guests |-> "removed"]
                       /\ status' = [status EXCEPT ![s] = "done"]
                       /\ stepYaml' = [stepYaml EXCEPT ![s] = status'[s]]

\* --------------------------------- discover, provision, prepare and report

\* wake() of a step other than execute and finish: the state is restored
\* from the workdir; a step that is not done becomes todo and is saved.
\* bad: the configuration is rejected with a SpecificationError
Step_wake(s, bad) ==
    LET st == Step_load(s)
    IN /\ UNCHANGED <<phases, tests, guests, results, resultsYaml, ops>>
       /\ IF bad
          THEN /\ last' = Ret("wake", s, "SpecificationError")
               /\ status' = [status EXCEPT ![s] = st]
               /\ UNCHANGED stepYaml
          ELSE /\ last' = Ret("wake", s, "none")
               /\ status' = [status EXCEPT ![s] = WakeStatus(st)]
               /\ IF WakeSaves(st)
                  THEN stepYaml' = [stepYaml EXCEPT ![s] = status'[s]]
                  ELSE UNCHANGED stepYaml

\* go() of a step other than execute and finish: nothing when done; else
\* the phases run, discover ends with n tests and provision with n guests,
\* the status becomes done and is saved. bad: a phase raises
Step_go(s, bad, n) ==
    /\ UNCHANGED <<phases, results, resultsYaml, ops>>
    /\ IF GoSkips(status[s])
       THEN /\ last' = Ret("go", s, "none")
            /\ UNCHANGED <<status, tests, guests, stepYaml>>
       ELSE IF bad
       THEN /\ last' = Ret("go", s, "RunError")
            /\ UNCHANGED <<status, tests, guests, stepYaml>>
       ELSE /\ last' = Ret("go", s, "none")
            /\ tests' = IF s = "discover" THEN n ELSE tests
            /\ guests' = IF s = "provision" THEN [g \in 1..n |-> "up"]
                         ELSE guests
            /\ status' = [status EXCEPT ![s] = "done"]
            /\ stepYaml' = [stepYaml EXCEPT ![s] = status'[s]]

\* step.wake() of any of the six steps, on inputs drawn from small sets
Wake(s) ==
    CASE s = "execute" -> \E bad \in BOOLEAN : Execute_wake(bad)
      [] s = "finish" -> \E n \in 0..Len(data.finish) : Finish_wake(n)
      [] OTHER -> \E bad \in BOOLEAN : Step_wake(s, bad)

\* step.go() of any of the six steps, on inputs drawn from small sets
Go(s) ==
    CASE s = "execute" ->
             \E k \in 0..Len(PhaseRuns(s)) :
                 \E outs \in [1..tests -> RunOutcomes] : Execute_go(k, outs)
      [] s = "finish" -> \E k \in 0..Len(PhaseRuns(s)) : Finish_go(k)
      [] s = "discover" ->
             \E bad \in BOOLEAN : \E n \in 0..MaxTests : Step_go(s, bad, n)
      [] s = "provision" ->
             \E bad \in BOOLEAN : \E n \in 0..MaxGuests : Step_go(s, bad, n)
      [] OTHER -> \E bad \in BOOLEAN : Step_go(s, bad, 0)

\* ----------------------------------------------------------------- Plan.go

\* Plan.steps(enabled, disabled, skip): the steps in the order of STEPS,
\* without those of skip, enabled ones and / or disabled ones
Plan_steps(enabled, disabled, skip) ==
    SelectSeq(STEPS,
              LAMBDA name :
                  /\ name \notin skip
                  /\ \/ enabled /\ name \in steps
                     \/ disabled /\ name \notin steps)

\* mutant: only the enabled steps are woken up
WakeOrder_enabled == Plan_steps(TRUE, FALSE, {})

\* for step in self.steps(disabled=True)
WakeOrder == Plan_steps(TRUE, TRUE, {})

GoOrder_withFinish == Plan_steps(TRUE, FALSE, {})

\* for step in self.steps(skip=['finish'])
GoOrder == Plan_steps(TRUE, FALSE, {"finish"})

\* mutant: the error is raised again whatever the step
WakeErrorIsFatal_always(s) == TRUE

\* except SpecificationError: if step.enabled: raise error
WakeErrorIsFatal(s) == s \in steps

\* mutant: the test of the dry mode is inverted
NoTestsFound_dry(s, n) == s = "discover" /\ n = 0 /\ opt.dry

\* step.name == 'discover' and not step.tests() and not self.opt('dry')
NoTestsFound(s, n) == s = "discover" /\ n = 0 /\ ~opt.dry

\* mutant: finish runs only when no exception is propagating
FinallyRunsFinish_onSuccess ==
    ~abort /\ "finish" \in steps /\ exc.kind = "none"

\* finally: if not abort and self.finish.enabled
FinallyRunsFinish == ~abort /\ "finish" \in steps

\* the state of the run, which no step of Plan.go touches
runFrame == <<cli, run, runYaml, went, input, output>>

planFrame == <<opt, data, plans, exits, runFrame>>

\* mutant: the loop that wakes the steps is inside the try statement
RaisedBeforeTry_finally == "finally"

\* the loops that wake the steps and the stand-alone check come before the
\* try statement: an exception raised there leaves Plan.go
RaisedBeforeTry == "raised"

\* one turn of the loop that wakes up all steps
Plan_wake ==
    /\ pc = "wake"
    /\ i <= Len(WakeOrder)
    /\ LET s == WakeOrder[i]
       IN /\ Wake(s)
          /\ calls' = Append(calls, last')
          /\ IF last'.raised = "none"
             THEN /\ i' = i + 1
                  /\ UNCHANGED <<pc, exc, warned>>
             ELSE IF WakeErrorIsFatal(s)
             THEN /\ pc' = RaisedBeforeTry
                  /\ exc' = Raise(last'.raised, s, "wake")
                  /\ UNCHANGED <<i, warned>>
             ELSE /\ warned' = warned \cup {s}
                  /\ i' = i + 1
                  /\ UNCHANGED <<pc, exc>>
    /\ UNCHANGED <<steps, abort, plugins, planFrame>>

\* the steps with exactly one plugin requiring the stand-alone mode
Standalone(cnt) == {s \in DOMAIN cnt : cnt[s] = 1}

StandaloneConflict_perStep(cnt) == \E s \in DOMAIN cnt : cnt[s] > 1

\* the two GeneralErrors of the stand-alone check: several stand-alone
\* plugins in one step, or stand-alone plugins in several steps
StandaloneConflict(cnt) ==
    \/ \E s \in DOMAIN cnt : cnt[s] > 1
    \/ Cardinality(Standalone(cnt)) > 1

StandaloneSteps_keep(cnt) == steps \cup Standalone(cnt)

\* elif standalone: self._context.obj.steps = standalone
StandaloneSteps(cnt) ==
    IF Standalone(cnt) # {} THEN Standalone(cnt) ELSE steps

\* step.setup_actions() of every step, then the stand-alone check; cnt[s]
\* is step.plugins_in_standalone_mode. No login or reboot action is
\* configured, so that setup_actions adds no phase to any step
Plan_standalone ==
    /\ pc = "wake"
    /\ i > Len(WakeOrder)
    /\ \E cnt \in [steps -> 0..MaxStandalone] :
          /\ plugins' = [checked |-> TRUE, cnt |-> cnt]
          /\ IF StandaloneConflict(cnt)
             THEN /\ pc' = RaisedBeforeTry
                  /\ exc' = Raise("GeneralError", "none", "standalone")
                  /\ UNCHANGED <<steps, i>>
             ELSE /\ steps' = StandaloneSteps(cnt)
                  /\ pc' = "go"
                  /\ i' = 1
                  /\ UNCHANGED exc
    /\ abort' = FALSE
    /\ UNCHANGED <<objVars, ops, last, calls, warned, planFrame>>

\* one turn of the loop that runs the enabled steps except finish
Plan_go ==
    /\ pc = "go"
    /\ i <= Len(GoOrder)
    /\ LET s == GoOrder[i]
       IN /\ Go(s)
          /\ calls' = Append(calls, last')
          /\ IF last'.raised # "none"
             THEN /\ exc' = Raise(last'.raised, s, "go")
                  /\ pc' = "finally"
                  /\ UNCHANGED <<i, abort>>
             ELSE IF NoTestsFound(s, tests')
             THEN /\ abort' = TRUE
                  /\ pc' = "finally"
                  /\ UNCHANGED <<i, exc>>
             ELSE /\ i' = i + 1
                  /\ UNCHANGED <<pc, abort, exc>>
    /\ UNCHANGED <<steps, warned, plugins, planFrame>>

\* the loop is over: the finally clause is entered
Plan_go_end ==
    /\ pc = "go"
    /\ i > Len(GoOrder)
    /\ pc' = "finally"
    /\ UNCHANGED <<objVars, ops, last, steps, i, abort, exc, calls, warned,
                   plugins, planFrame>>

\* the finally clause: finish.go(), then the return or the exception
Plan_finally ==
    /\ pc = "finally"
    /\ IF FinallyRunsFinish
       THEN /\ Go("finish")
            /\ calls' = Append(calls, last')
            /\ exc' = IF last'.raised # "none"
                      THEN Raise(last'.raised, "finish", "go") ELSE exc
       ELSE UNCHANGED <<objVars, ops, last, calls, exc>>
    /\ pc' = IF exc'.kind # "none" THEN "raised" ELSE "returned"
    /\ UNCHANGED <<steps, i, abort, warned, plugins, planFrame>>

\* a fresh plan in a fresh workdir, any set of enabled steps and any options
Init ==
    /\ steps \in SUBSET StepNames
    /\ opt \in [dry : BOOLEAN, executeDry : {FALSE}, remove : {FALSE}]
    /\ data \in [execute : 1..2,
                 finish : UNION {[1..n -> BOOLEAN] : n \in 0..MaxData}]
    /\ status = [s \in StepNames |-> "todo"]
    /\ phases = [s \in StepNames |-> <<>>]
    /\ tests = 0
    /\ guests = <<>>
    /\ results = <<>>
    /\ stepYaml = [s \in StepNames |-> "none"]
    /\ resultsYaml = [exists |-> FALSE, data |-> <<>>]
    /\ pc = "wake"
    /\ i = 1
    /\ abort = FALSE
    /\ exc = NoExc
    /\ calls = <<>>
    /\ ops = <<>>
    /\ warned = {}
    /\ last = NoCall
    /\ plans = <<>>
    /\ exits = <<>>
    /\ plugins = NotChecked
    /\ RunIdle

Next ==
    \/ Plan_wake
    \/ Plan_standalone
    \/ Plan_go
    \/ Plan_go_end
    \/ Plan_finally

Spec == Init /\ [][Next]_vars

\* -------------------------------------- the step methods, called directly

stepFrame == <<steps, opt, data, abort, exc, warned, plans, exits, plugins,
               runFrame>>

\* a method of the Execute or the Finish step is called on the same object
Call_wake ==
    /\ pc = "step"
    /\ i < MaxCalls
    /\ \E s \in {"execute", "finish"} : Wake(s)
    /\ calls' = Append(calls, last')
    /\ i' = i + 1
    /\ UNCHANGED <<pc, stepFrame>>

Call_go ==
    /\ pc = "step"
    /\ i < MaxCalls
    /\ \E s \in {"execute", "finish"} : Go(s)
    /\ calls' = Append(calls, last')
    /\ i' = i + 1
    /\ UNCHANGED <<pc, stepFrame>>

\* the process ends and the run is resumed by a new one: the step objects
\* are built anew, the workdir is the one the first process left
Resume ==
    /\ pc = "step"
    /\ i < MaxCalls
    /\ calls # <<>>
    /\ status' = [s \in StepNames |-> "todo"]
    /\ phases' = [s \in StepNames |-> <<>>]
    /\ results' = <<>>
    /\ last' = [NoCall EXCEPT !.op = "resume"]
    /\ calls' = Append(calls, last')
    /\ i' = i + 1
    /\ UNCHANGED <<tests, guests, stepYaml, resultsYaml, ops, pc, stepFrame>>

\* a plan whose discover and provision steps have run, in a fresh workdir
InitStep ==
    /\ steps = StepNames
    /\ opt = [dry |-> FALSE, executeDry |-> FALSE, remove |-> FALSE]
    /\ data \in [execute : 1..2,
                 finish : UNION {[1..n -> BOOLEAN] : n \in 0..MaxData}]
    /\ status = [s \in StepNames |-> "todo"]
    /\ phases = [s \in StepNames |-> <<>>]
    /\ tests \in 0..MaxTests
    /\ guests \in {[g \in 1..n |-> "up"] : n \in 0..MaxGuests}
    /\ results = <<>>
    /\ stepYaml = [s \in StepNames |-> "none"]
    /\ resultsYaml = [exists |-> FALSE, data |-> <<>>]
    /\ pc = "step"
    /\ i = 0
    /\ abort = FALSE
    /\ exc = NoExc
    /\ calls = <<>>
    /\ ops = <<>>
    /\ warned = {}
    /\ last = NoCall
    /\ plans = <<>>
    /\ exits = <<>>
    /\ plugins = NotChecked
    /\ RunIdle

NextStep ==
    \/ Call_wake
    \/ Call_go
    \/ Resume

SpecStep == InitStep /\ [][NextStep]_vars

\* -------------------------------------------------------------- Run.finish

Result_total_seen(rs) ==
    [o \in {rs[n].result : n \in DOMAIN rs} |->
        Cardinality({n \in DOMAIN rs : rs[n].result = o})]

\* Result.total: the number of results of each of the five outcomes
Result_total(rs) ==
    [o \in Outcomes |-> Cardinality({n \in DOMAIN rs : rs[n].result = o})]

RECURSIVE SumOver(_, _)
SumOver(f, S) ==
    IF S = {} THEN 0
    ELSE LET x == CHOOSE y \in S : TRUE IN f[x] + SumOver(f, S \ {x})

\* [result for plan in self.plans for result in plan.execute.results()]
RECURSIVE AllResults(_)
AllResults(ps) ==
    IF ps = <<>> THEN <<>> ELSE Head(ps) \o AllResults(Tail(ps))

\* execute.enabled or report.enabled
InterestingResults == "execute" \in steps \/ "report" \in steps

\* mutant: the dry mode is not looked at
FinishReturns_nodry == ~InterestingResults

\* if self.opt('dry') or not interesting_results: return
FinishReturns == opt.dry \/ ~InterestingResults

\* mutant: warn is not counted with fail
ExitCode_warn(stats) ==
    IF SumOver(stats, Outcomes) = 0 THEN 3
    ELSE IF stats["error"] > 0 THEN 2
    ELSE IF stats["fail"] > 0 THEN 1
    ELSE IF stats["pass"] > 0 THEN 0
    ELSE 2

\* the exit code raised from the total stats
ExitCode(stats) ==
    IF SumOver(stats, Outcomes) = 0 THEN 3
    ELSE IF stats["error"] > 0 THEN 2
    ELSE IF stats["fail"] + stats["warn"] > 0 THEN 1
    ELSE IF stats["pass"] > 0 THEN 0
    ELSE 2

\* if self.remove and self.plans[0].finish.enabled: _workdir_cleanup
RemovesWorkdir == opt.remove /\ "finish" \in steps

\* Run.finish()
Run_finish ==
    /\ pc = "finish"
    /\ IF RemovesWorkdir
       THEN /\ stepYaml' = [s \in StepNames |-> "none"]
            /\ resultsYaml' = [exists |-> FALSE, data |-> <<>>]
            /\ runYaml' = NoFile
       ELSE UNCHANGED <<stepYaml, resultsYaml, runYaml>>
    /\ IF FinishReturns
       THEN /\ pc' = "returned"
            /\ UNCHANGED exits
       ELSE /\ pc' = "exited"
            /\ exits' = Append(exits,
                               IF opt.executeDry THEN 0
                               ELSE ExitCode(Result_total(AllResults(plans))))
    /\ UNCHANGED <<steps, opt, data, status, phases, tests, guests, results,
                   i, abort, exc, calls, ops, warned, last, plans, plugins,
                   cli, run, went, input, output>>

\* the results of one plan: up to MaxResults results of any outcome
PlanResults ==
    UNION {[1..n -> [name : {1}, result : Outcomes]] : n \in 0..MaxResults}

\* a run whose plans have all returned from go(), with any results
InitFinish ==
    /\ steps \in SUBSET {"execute", "report", "finish"}
    /\ opt \in [dry : BOOLEAN, executeDry : BOOLEAN, remove : BOOLEAN]
    /\ plans \in UNION {[1..n -> PlanResults] : n \in 1..MaxPlans}
    /\ data = [execute |-> 1, finish |-> <<>>]
    /\ status = [s \in StepNames |-> "todo"]
    /\ phases = [s \in StepNames |-> <<>>]
    /\ tests = 0
    /\ guests = <<>>
    /\ results = <<>>
    /\ stepYaml = [s \in StepNames |-> IF s \in steps THEN "done" ELSE "none"]
    /\ resultsYaml = [exists |-> "execute" \in steps, data |-> <<>>]
    /\ pc = "finish"
    /\ i = 0
    /\ abort = FALSE
    /\ exc = NoExc
    /\ calls = <<>>
    /\ ops = <<>>
    /\ warned = {}
    /\ last = NoCall
    /\ exits = <<>>
    /\ plugins = NotChecked
    /\ RunIdle

NextFinish == Run_finish

SpecFinish == InitFinish /\ [][NextFinish]_vars

\* ------------------------------------------------------- claims on Plan.go

Ended == pc \in {"returned", "raised"}

Range(f) == {f[n] : n \in DOMAIN f}

\* go() of step s is the n-th call
IsGo(n, s) == calls[n].op = "go" /\ calls[n].step = s

IsWake(n, s) == calls[n].op = "wake" /\ calls[n].step = s

Went(s) == \E n \in DOMAIN calls : IsGo(n, s)

MainStages == {"discover", "provision", "prepare", "execute", "report"}

\* go() of one of the stages before finish raised
StageRaised(n) ==
    /\ calls[n].op = "go"
    /\ calls[n].step \in MainStages
    /\ calls[n].raised # "none"

\* discover.go() ran to its end and the step holds no test
DiscoverFoundNothing ==
    /\ \E n \in DOMAIN calls : IsGo(n, "discover") /\ calls[n].raised = "none"
    /\ tests = 0

\* C1: when finish is enabled and go() of discover, provision, prepare,
\* execute or report raised, then by the time Plan.go has ended it has
\* ended with an exception and finish.go() was invoked after the go() that
\* raised.
C1_FinishAfterRaise ==
    \A n \in DOMAIN calls :
        (Ended /\ StageRaised(n) /\ "finish" \in steps) =>
            /\ pc = "raised"
            /\ \E m \in DOMAIN calls : m > n /\ IsGo(m, "finish")

C1_Witness ==
    /\ pc = "raised"
    /\ "finish" \in steps
    /\ \E n \in DOMAIN calls : StageRaised(n) /\ calls[n].step = "prepare"
    /\ IsGo(Len(calls), "finish")
    /\ calls[Len(calls)].raised = "none"
    /\ exc.step = "prepare"

\* C2: outside dry mode, when discover.go() completed with zero tests and
\* finish is enabled, finish.go() has been invoked when Plan.go returns.
C2_FinishAfterNoTests ==
    (pc = "returned" /\ ~opt.dry /\ DiscoverFoundNothing
       /\ "finish" \in steps) => Went("finish")

\* C3: outside dry mode, once discover.go() completed with zero tests,
\* go() is invoked on none of provision, prepare, execute, report; in dry
\* mode Plan.go does not abort, and unless a stage raises it has invoked
\* go() on every enabled stage when it ends.
C3_NoTestsSkipsStages ==
    DiscoverFoundNothing =>
        IF ~opt.dry
        THEN /\ \A s \in MainStages \ {"discover"} : ~Went(s)
             /\ pc \notin {"go"}
        ELSE /\ ~abort
             /\ (Ended /\ ~\E n \in DOMAIN calls : StageRaised(n)) =>
                    \A s \in Range(GoOrder) : Went(s)

C3_Witness ==
    /\ pc = "returned"
    /\ ~opt.dry
    /\ DiscoverFoundNothing
    /\ {"provision", "prepare", "execute", "report"} \subseteq steps
    /\ calls[Len(calls)].step = "discover"

\* the dry half of C3 happens as well: the stages after a discover with no
\* test have run
C3_DryReached ==
    /\ pc = "returned"
    /\ opt.dry
    /\ DiscoverFoundNothing
    /\ Went("provision") /\ Went("report")

\* C9: whenever go() is invoked on a step, wake() has been invoked before
\* on every one of the six steps, enabled or not.
C9_WakeAllBeforeGo ==
    \A n \in DOMAIN calls :
        calls[n].op = "go" =>
            \A s \in StepNames : \E m \in 1..(n - 1) : IsWake(m, s)

C9_Witness ==
    /\ Len(calls) > Len(STEPS)
    /\ calls[Len(calls)].op = "go"
    /\ "prepare" \notin steps
    /\ "report" \notin steps

\* C10: a SpecificationError raised by wake() of an enabled step ends
\* Plan.go with that error, no further call being made; raised by wake() of
\* a disabled step it is only a warning: the loop goes on, all six steps
\* are woken, and a Plan.go that returns without abort has invoked go() on
\* every enabled stage before finish.
C10_WakeErrors ==
    \A n \in DOMAIN calls :
        (calls[n].op = "wake" /\ calls[n].raised = "SpecificationError") =>
            IF calls[n].step \in steps
            THEN /\ pc = "raised"
                 /\ exc = Raise("SpecificationError", calls[n].step, "wake")
                 /\ n = Len(calls)
            ELSE /\ calls[n].step \in warned
                 /\ ~(exc.op = "wake" /\ exc.step = calls[n].step)
                 /\ pc = "wake" /\ exc.kind = "none" => i = Len(calls) + 1
                 /\ (exc.op # "wake" /\ (pc # "wake" \/ i > Len(STEPS))) =>
                        \A s \in StepNames : \E m \in DOMAIN calls : IsWake(m, s)
                 /\ (pc = "returned" /\ ~abort) =>
                        \A s \in Range(GoOrder) : Went(s)

C10_Witness ==
    /\ pc = "returned"
    /\ warned = {"provision"}
    /\ steps = {"discover", "finish"}
    /\ Went("discover") /\ Went("finish")
    /\ \E n \in DOMAIN calls :
           IsWake(n, "provision") /\ calls[n].raised = "SpecificationError"

\* the fatal half of C10 happens as well
C10_FatalReached ==
    /\ pc = "raised"
    /\ exc = Raise("SpecificationError", "execute", "wake")
    /\ "execute" \in steps

\* ---------------------------------------------------- claims on Run.finish

\* a result of the run has one of the outcomes of S
AnyResult(S) ==
    \E p \in DOMAIN plans : \E n \in DOMAIN plans[p] :
        plans[p][n].result \in S

\* C4: when Run.finish evaluates the exit codes, it exits with 3 if no plan
\* has any result, else 2 if a result is error, else 1 if a result is fail
\* or warn, else 0 if a result is pass, else 2.
C4_ExitCode ==
    (pc = "exited" /\ ~opt.executeDry) =>
        exits = << IF ~AnyResult(Outcomes) THEN 3
                   ELSE IF AnyResult({"error"}) THEN 2
                   ELSE IF AnyResult({"fail", "warn"}) THEN 1
                   ELSE IF AnyResult({"pass"}) THEN 0
                   ELSE 2 >>

C4_Witness ==
    /\ pc = "exited"
    /\ ~opt.executeDry
    /\ Len(plans) = 2
    /\ plans[1] # <<>> /\ plans[1][1].result = "pass"
    /\ plans[2] # <<>> /\ plans[2][1].result = "warn"
    /\ exits = <<1>>

\* the last branch of C4 happens as well: only info results exit with 2
C4_InfoReached ==
    /\ pc = "exited"
    /\ ~opt.executeDry
    /\ AnyResult({"info"}) /\ ~AnyResult(Outcomes \ {"info"})
    /\ exits = <<2>>

C5_ReturnReached ==
    /\ pc = "returned"
    /\ steps = {"finish"}
    /\ ~opt.dry
    /\ AnyResult({"fail"})
    /\ exits = <<>>

\* ------------------------------------------ claims on the Execute / Finish
\* ------------------------------------------ steps, checked under SpecStep

\* the step made is a method call
Called == Len(calls') = Len(calls) + 1

NoDuplicate(seq) ==
    \A m, n \in DOMAIN seq : m # n => seq[m] # seq[n]

C6_ExecuteReached ==
    /\ Len(calls) = 3
    /\ calls[3] = [op |-> "go", step |-> "execute", raised |-> "none",
                   before |-> "done"]
    /\ status["execute"] = "done"
    /\ Len(results) = 2
    /\ resultsYaml.exists /\ Len(resultsYaml.data) = 2

\* C7: calling wake() twice on the same Execute or Finish step duplicates
\* no phase in the phase list of the step.
C7_WakeTwiceNoDuplicate ==
    \A s \in {"execute", "finish"} : NoDuplicate(phases[s])

\* C8: wake() of the Execute or the Finish step on a done step leaves the
\* status done and rewrites no file of the step; a wake() that returns on
\* a step that is not done sets the status to todo and saves the step.
C8_WakeKeepsDone ==
    [][(Called /\ last'.op = "wake") =>
           LET s == last'.step
           IN IF status[s] = "done" \/ stepYaml[s] = "done"
              THEN /\ status'[s] = "done"
                   /\ stepYaml' = stepYaml
                   /\ resultsYaml' = resultsYaml
              ELSE last'.raised = "none" =>
                       /\ status'[s] = "todo"
                       /\ stepYaml'[s] = "todo"
                       /\ s = "execute" => resultsYaml'.exists]_vars

\* wake() was called on a done Execute step whose results are saved, in
\* the process that ran it
C8_Witness ==
    /\ Len(calls) >= 3
    /\ calls[Len(calls)] = [op |-> "wake", step |-> "execute",
                            raised |-> "none", before |-> "done"]
    /\ status["execute"] = "done"
    /\ stepYaml["execute"] = "done"
    /\ resultsYaml.data # <<>>

\* the other cases of C8 happen as well: wake() on a step found done in
\* the workdir by a new process, and wake() on a step that is not done
C8_ResumedReached ==
    /\ Len(calls) >= 3
    /\ calls[Len(calls) - 1].op = "resume"
    /\ calls[Len(calls)].op = "wake"
    /\ calls[Len(calls)].step = "finish"
    /\ calls[Len(calls)].before = "todo"
    /\ status["finish"] = "done"

C8_TodoReached ==
    /\ Len(calls) = 1
    /\ calls[1].op = "wake" /\ calls[1].step = "finish"
    /\ calls[1].raised = "none"
    /\ status["finish"] = "todo"
    /\ stepYaml["finish"] = "todo"

\* ------------------------------------- claims on the stand-alone check

\* the go() calls of Plan.go, in the order they were made
RECURSIVE GoCalls(_)
GoCalls(cs) ==
    IF cs = <<>> THEN <<>>
    ELSE IF Head(cs).op = "go" THEN <<Head(cs).step>> \o GoCalls(Tail(cs))
    ELSE GoCalls(Tail(cs))

\* the position of a step in tmt.steps.STEPS
Index(s) == CHOOSE n \in DOMAIN STEPS : STEPS[n] = s

\* C11: when the stand-alone check finds an enabled step with more than
\* one plugin requiring the stand-alone mode, or more than one enabled step
\* requiring it, Plan.go ends with a GeneralError raised by the check and
\* go() has been invoked on no step.
C11_StandaloneConflictIsFatal ==
    LET cnt == plugins.cnt
    IN (/\ plugins.checked
        /\ \/ \E s \in DOMAIN cnt : cnt[s] > 1
           \/ \E s, u \in DOMAIN cnt : s # u /\ cnt[s] >= 1 /\ cnt[u] >= 1)
       => /\ pc = "raised"
          /\ exc = Raise("GeneralError", "none", "standalone")
          /\ GoCalls(calls) = <<>>

\* two enabled steps have one stand-alone plugin each, none has more
C11_Witness ==
    /\ plugins.checked
    /\ \A s \in DOMAIN plugins.cnt : plugins.cnt[s] <= 1
    /\ {"discover", "execute"} \subseteq DOMAIN plugins.cnt
    /\ plugins.cnt["discover"] = 1
    /\ plugins.cnt["execute"] = 1
    /\ pc = "raised"
    /\ GoCalls(calls) = <<>>
    /\ Len(calls) = Len(STEPS)

\* the other case of C11: one step with two stand-alone plugins
C11_PerStepReached ==
    /\ plugins.checked
    /\ DOMAIN plugins.cnt = {"provision", "report"}
    /\ plugins.cnt["provision"] = 2
    /\ plugins.cnt["report"] = 0
    /\ pc = "raised"

\* C12: when exactly one enabled step requires the stand-alone mode, with
\* exactly one plugin, the enabled steps of the invocation become that
\* single step, and every go() invoked in Plan.go is the go() of that step.
C12_StandaloneRunsAlone ==
    \A s \in StepNames :
        (/\ plugins.checked
         /\ s \in DOMAIN plugins.cnt
         /\ \A u \in DOMAIN plugins.cnt :
                plugins.cnt[u] = (IF u = s THEN 1 ELSE 0))
        => /\ steps = {s}
           /\ Range(GoCalls(calls)) \subseteq {s}
           /\ pc = "returned" => GoCalls(calls) = <<s>>

\* all six steps were enabled, prepare alone required the stand-alone mode
\* and its go() was the only one
C12_Witness ==
    /\ plugins.checked
    /\ DOMAIN plugins.cnt = StepNames
    /\ \A u \in StepNames :
           plugins.cnt[u] = (IF u = "prepare" THEN 1 ELSE 0)
    /\ pc = "returned"
    /\ steps = {"prepare"}
    /\ GoCalls(calls) = <<"prepare">>

\* the stand-alone step may be finish itself: its go() runs in the finally
C12_FinishReached ==
    /\ plugins.checked
    /\ Cardinality(DOMAIN plugins.cnt) > 1
    /\ steps = {"finish"}
    /\ pc = "returned"
    /\ GoCalls(calls) = <<"finish">>

\* C13: the go() calls of one Plan.go follow the order of discover,
\* provision, prepare, execute, report, finish with no step twice: go() of
\* finish is never followed by the go() of another step.
C13_GoInFixedOrder ==
    LET gs == GoCalls(calls)
    IN /\ \A n, m \in DOMAIN gs : n < m => Index(gs[n]) < Index(gs[m])
       /\ Range(gs) \subseteq steps

\* all six steps ran, in order
C13_Witness ==
    /\ pc = "returned"
    /\ GoCalls(calls) = STEPS

\* go() of finish ran right after a go() that raised, the stages between
\* them being skipped
C13_SkipReached ==
    /\ pc = "raised"
    /\ GoCalls(calls) = <<"discover", "provision", "finish">>
    /\ steps = StepNames

\* ------------------------------------------------- the plan environment

\* the variable that names the data directory of the plan
TMT_PLAN_DATA == "TMT_PLAN_DATA"

\* the names and the texts of the variables of the sources
EnvKeys == {"KEY", TMT_PLAN_DATA}

EnvTexts == {"x", "y"}

\* a value read from a file or from the command line is a string, a value
\* of the environment key of a plan is any YAML scalar
Strings == [type : {"str"}, text : EnvTexts]

Scalars == [type : {"str", "int"}, text : EnvTexts]

\* self.data_directory, as a string
DataDirectory == [type |-> "str", text |-> "data"]

\* all dictionaries from some of the keys to the values
Dicts(keys, values) == UNION {[D -> values] : D \in SUBSET keys}

\* a.update(b), on a copy of a
Update(a, b) ==
    [k \in DOMAIN a \cup DOMAIN b |-> IF k \in DOMAIN b THEN b[k] ELSE a[k]]

\* str(value)
Str(v) == [v EXCEPT !.type = "str"]

Plan_get_environment_vars_file(files, environment) ==
    Update([k \in DOMAIN environment |-> Str(environment[k])], files)

\* Plan._get_environment_vars: the files of the environment-file key, then
\* the environment key, each value as a string
Plan_get_environment_vars(files, environment) ==
    Update(files, [k \in DOMAIN environment |-> Str(environment[k])])

Run_environment_file(workdir, files, environment) ==
    Update(workdir, Update(environment, files))

\* Run.environment: the workdir, then the environment-file options, then
\* the environment options
Run_environment(workdir, files, environment) ==
    Update(workdir, Update(Update(<<>>, files), environment))

Plan_environment_plan(in) ==
    Update(Update(Run_environment(in.workdir, in.cliFiles, in.cliEnvironment),
                  Plan_get_environment_vars(in.planFiles,
                                            in.planEnvironment)),
           [k \in {TMT_PLAN_DATA} |-> DataDirectory])

\* Plan.environment; in.hasRun is self.my_run, in.planFiles and
\* in.cliFiles are what environment_files_to_dict returned
Plan_environment(in) ==
    LET own == Plan_get_environment_vars(in.planFiles, in.planEnvironment)
    IN IF in.hasRun
       THEN Update(Update(own, Run_environment(in.workdir, in.cliFiles,
                                               in.cliEnvironment)),
                   [k \in {TMT_PLAN_DATA} |-> DataDirectory])
       ELSE own

\* the five sources of a plan, with or without a run
EnvInputs ==
    [hasRun : BOOLEAN,
     planFiles : Dicts(EnvKeys, Strings),
     planEnvironment : Dicts(EnvKeys, Scalars),
     workdir : Dicts(EnvKeys, Strings),
     cliFiles : Dicts(EnvKeys, Strings),
     cliEnvironment : Dicts(EnvKeys, Strings)]

\* the values of every variable but the function under study
FunctionIdle ==
    /\ steps = {}
    /\ opt = [dry |-> FALSE, executeDry |-> FALSE, remove |-> FALSE]
    /\ data = [execute |-> 1, finish |-> <<>>]
    /\ status = [s \in StepNames |-> "todo"]
    /\ phases = [s \in StepNames |-> <<>>]
    /\ tests = 0
    /\ guests = <<>>
    /\ results = <<>>
    /\ stepYaml = [s \in StepNames |-> "none"]
    /\ resultsYaml = [exists |-> FALSE, data |-> <<>>]
    /\ i = 0
    /\ abort = FALSE
    /\ exc = NoExc
    /\ calls = <<>>
    /\ ops = <<>>
    /\ warned = {}
    /\ last = NoCall
    /\ plans = <<>>
    /\ exits = <<>>
    /\ plugins = NotChecked
    /\ cli = NoOptions
    /\ run = NoRun
    /\ runYaml = NoFile
    /\ went = <<>>

functionFrame ==
    <<steps, opt, data, objVars, i, abort, exc, calls, ops, warned, last,
      plans, exits, plugins, cli, run, runYaml, went, input>>

\* the property is read
Read_environment ==
    /\ pc = "environment"
    /\ output' = Plan_environment(input)
    /\ pc' = "returned"
    /\ UNCHANGED functionFrame

InitEnvironment ==
    /\ FunctionIdle
    /\ pc = "environment"
    /\ input \in EnvInputs
    /\ output = <<>>

NextEnvironment == Read_environment

SpecEnvironment == InitEnvironment /\ [][NextEnvironment]_vars

\* the sources of the plan environment, from the lowest precedence to the
\* highest, as the strings they provide
EnvSources ==
    <<input.planFiles,
      [k \in DOMAIN input.planEnvironment |-> Str(input.planEnvironment[k])],
      input.workdir, input.cliFiles, input.cliEnvironment>>

\* the sources that define the key
Defining(k) == {n \in DOMAIN EnvSources : k \in DOMAIN EnvSources[n]}

Highest(S) == CHOOSE n \in S : \A m \in S : m <= n

\* C16: in the environment of a plan of a run, a key other than
\* TMT_PLAN_DATA is defined exactly if one of the five sources defines it
\* and has the value of the last source defining it in the order plan
\* environment-file, plan environment, run workdir, command line
\* environment-file, command line environment; TMT_PLAN_DATA is the data
\* directory of the plan whatever the sources say.
C16_EnvironmentPrecedence ==
    (pc = "returned" /\ input.hasRun) =>
        /\ \A k \in EnvKeys \ {TMT_PLAN_DATA} :
              /\ k \in DOMAIN output <=> Defining(k) # {}
              /\ Defining(k) # {} =>
                    output[k] = EnvSources[Highest(Defining(k))][k]
        /\ TMT_PLAN_DATA \in DOMAIN output
        /\ output[TMT_PLAN_DATA] = DataDirectory

\* all five sources define the key, each source but the last with "x", and
\* all define TMT_PLAN_DATA: the command line environment wins
C16_Witness ==
    /\ pc = "returned"
    /\ input.hasRun
    /\ \A n \in DOMAIN EnvSources :
           /\ DOMAIN EnvSources[n] = EnvKeys
           /\ EnvSources[n]["KEY"].text = (IF n = Len(EnvSources) THEN "y" ELSE "x")
    /\ output["KEY"].text = "y"
    /\ output[TMT_PLAN_DATA] = DataDirectory

\* the plan environment key wins over the plan environment-file, and its
\* integer is turned into a string
C16_PlanReached ==
    /\ pc = "returned"
    /\ input.hasRun
    /\ Defining("KEY") = {1, 2}
    /\ input.planFiles["KEY"].text = "x"
    /\ input.planEnvironment["KEY"] = [type |-> "int", text |-> "y"]
    /\ output["KEY"] = [type |-> "str", text |-> "y"]

\* ------------------------------------------------------------------ Run.go

\* the number of names a skip option carries at most
MaxSkip == 1

\* an entry of went: a stage of Run.go, or the go() of a plan
Event(op, plan, raised) == [op |-> op, plan |-> plan, raised |-> raised]

\* Common._workdir_load: the workdir is created, or found under the given id
Workdir_load(r) == [r EXCEPT !.workdir = TRUE]

\* self.tree.root and self._workdir.startswith(self.tree.root)
InsideRoot == cli.where \in {"inside", "beside"}

\* Tree.plans: the plans the plan options select, in the order of the
\* tree, all of them or the enabled ones
Tree_plans(enabledOnly) ==
    SelectSeq(TreePlans,
              LAMBDA p : p \in cli.match /\ (enabledOnly => p \in cli.enabled))

\* any(self.opt(option) for option in step_options)
StepOptionGiven(o) ==
    \/ o.all
    \/ o.since # "none" \/ o.until # "none"
    \/ o.after # "none" \/ o.before # "none"
    \/ o.skip # {}

RestoresPlans_always == TRUE

\* not any(Plan._opt(option) for option in plan_options)
RestoresPlans == ~cli.planOption

RestoresSteps_always == TRUE

\* not selected and not self._context.obj.steps
RestoresSteps == ~StepOptionGiven(cli) /\ steps = {}

\* the plans of the tree whose name is in data['plans']
RestoredPlans ==
    SelectSeq(Tree_plans(FALSE), LAMBDA p : p \in Range(runYaml.plans))

\* Run.load: nothing without run.yaml. The tree named by the root of
\* run.yaml is the tree of the command line
Run_load ==
    /\ pc = "load"
    /\ IF runYaml.exists
       THEN /\ run' = [run EXCEPT
                          !.selected = @ \/ RestoresPlans,
                          !.plans = IF RestoresPlans THEN RestoredPlans ELSE @,
                          !.environment = runYaml.environment]
            /\ steps' = IF RestoresSteps THEN runYaml.steps ELSE steps
            /\ opt' = [opt EXCEPT !.remove = @ \/ runYaml.remove]
       ELSE UNCHANGED <<run, steps, opt>>
    /\ went' = Append(went, Event("load", "none", FALSE))
    /\ pc' = "select"
    /\ UNCHANGED <<data, objVars, i, abort, exc, calls, ops, warned, last,
                   plans, exits, plugins, cli, runYaml, input, output>>

First_after(o) ==
    IF o.since # "none" THEN Index(o.since)
    ELSE IF o.after # "none" THEN Index(o.after)
    ELSE Index("discover")

\* the index of the first enabled step
First(o) ==
    IF o.since # "none" THEN Index(o.since)
    ELSE IF o.after # "none" THEN Index(o.after) + 1
    ELSE Index("discover")

\* the index of the last enabled step
Last(o) ==
    IF o.until # "none" THEN Index(o.until)
    ELSE IF o.before # "none" THEN Index(o.before) - 1
    ELSE Index("finish")

\* the enabled steps after the selection of Run.go, enabled being those
\* enabled before it
EnabledSteps(enabled, o) ==
    IF \/ o.all \/ enabled = {}
       \/ o.since # "none" \/ o.until # "none"
       \/ o.after # "none" \/ o.before # "none"
    THEN enabled \cup ({STEPS[n] : n \in First(o)..Last(o)} \ o.skip)
    ELSE enabled


\* the start of Run.go: the workdir is created, then its path is checked
Run_workdir ==
    /\ pc = "run"
    /\ run' = Workdir_load(run)
    /\ went' = Append(went, Event("workdir", "none", InsideRoot))
    /\ IF InsideRoot
       THEN /\ pc' = "raised"
            /\ exc' = Raise("GeneralError", "none", "workdir")
       ELSE /\ pc' = "load"
            /\ UNCHANGED exc
    /\ UNCHANGED <<steps, opt, data, objVars, i, abort, calls, ops, warned,
                   last, plans, exits, plugins, cli, runYaml, input, output>>

\* the dry mode of provision is propagated to execute, then the steps of
\* the step options are enabled
Run_select ==
    /\ pc = "select"
    /\ opt' = [opt EXCEPT !.executeDry = @ \/ cli.provisionDry]
    /\ steps' = EnabledSteps(steps, cli)
    /\ pc' = "plans"
    /\ UNCHANGED <<data, objVars, i, abort, exc, calls, ops, warned, last,
                   plans, exits, plugins, cli, run, runYaml, went, input,
                   output>>

\* Run.plans: the restored plans, else the enabled plans of the tree that
\* the plan options select
Run_plans == IF run.selected THEN run.plans ELSE Tree_plans(TRUE)

NoPlansFound_never(ps) == FALSE

\* if not self.plans
NoPlansFound(ps) == ps = <<>>

Run_save_kept(ps) == runYaml

\* Run.save: the content of run.yaml
Run_save(ps) ==
    [exists |-> TRUE,
     root |-> cli.where # "noroot",
     plans |-> ps,
     steps |-> steps,
     environment |-> Run_environment(run.environment, cli.environmentFiles,
                                     cli.environment),
     remove |-> opt.remove]

\* the plans are looked up; without a plan Run.go fails, else the run is
\* saved
Run_summary ==
    /\ pc = "plans"
    /\ run' = [run EXCEPT !.selected = TRUE, !.plans = Run_plans]
    /\ IF NoPlansFound(Run_plans)
       THEN /\ pc' = "raised"
            /\ exc' = Raise("GeneralError", "none", "plans")
            /\ UNCHANGED <<runYaml, went, i>>
       ELSE /\ runYaml' = Run_save(Run_plans)
            /\ went' = Append(went, Event("save", "none", FALSE))
            /\ pc' = "plan"
            /\ i' = 1
            /\ UNCHANGED exc
    /\ UNCHANGED <<steps, opt, data, objVars, abort, calls, ops, warned,
                   last, plans, exits, plugins, cli, input, output>>

\* what go() of a plan of the run leaves: its results, or an exception.
\* No plan of the tree has a plugin in stand-alone mode
PlanOutcomes ==
    {[raised |-> TRUE, results |-> <<>>]}
        \cup {[raised |-> FALSE, results |-> rs] :
                  rs \in {<<>>, <<[name |-> 1, result |-> "fail"]>>}}

PlansDone_first == i > 1

\* the loop over self.plans is over
PlansDone == i > Len(run.plans)

\* one turn of the loop over the plans: plan.go()
Run_plan_go ==
    /\ pc = "plan"
    /\ ~PlansDone
    /\ \E out \in PlanOutcomes :
          /\ went' = Append(went, Event("go", run.plans[i], out.raised))
          /\ IF out.raised
             THEN /\ pc' = "raised"
                  /\ exc' = Raise("Exception", "none", "plan")
                  /\ UNCHANGED <<plans, i>>
             ELSE /\ plans' = Append(plans, out.results)
                  /\ i' = i + 1
                  /\ UNCHANGED <<pc, exc>>
    /\ UNCHANGED <<steps, opt, data, objVars, abort, calls, ops, warned,
                   last, exits, plugins, cli, run, runYaml, input, output>>

\* after the loop: self.finish()
Run_plans_end ==
    /\ pc = "plan"
    /\ PlansDone
    /\ pc' = "finish"
    /\ UNCHANGED <<steps, opt, data, objVars, i, abort, exc, calls, ops,
                   warned, last, plans, exits, plugins, cli, run, runYaml,
                   went, input, output>>

\* the step options of the runs: none, or one of the six
StepOptions ==
    {NoOptions,
     [NoOptions EXCEPT !.all = TRUE],
     [NoOptions EXCEPT !.since = "prepare"],
     [NoOptions EXCEPT !.until = "execute"],
     [NoOptions EXCEPT !.after = "discover"],
     [NoOptions EXCEPT !.before = "finish"],
     [NoOptions EXCEPT !.skip = {"report"}]}

\* no plan option and all plans, or a plan option and the plans it selects
PlanOptions ==
    {[planOption |-> FALSE, match |-> PlanNames]}
        \cup {[planOption |-> TRUE, match |-> m] : m \in SUBSET PlanNames}

\* the command lines of the runs
RunOptions ==
    {[o EXCEPT !.where = w, !.provisionDry = d, !.planOption = po.planOption,
               !.match = po.match, !.enabled = e, !.steps = x] :
        o \in StepOptions,
        w \in {"outside", "inside", "beside", "noroot"},
        d \in BOOLEAN,
        po \in PlanOptions,
        e \in {PlanNames, {TreePlans[Len(TreePlans)]}, {}},
        x \in {{}, {"discover"}, {"execute"}}}

\* the run.yaml an earlier Run.go may have left in the workdir
RunFiles ==
    {NoFile}
        \cup [exists : {TRUE}, root : {TRUE},
              plans : {SelectSeq(TreePlans, LAMBDA p : p \in S) :
                          S \in SUBSET PlanNames},
              steps : {{}, {"prepare"}},
              environment : {<<>>},
              remove : BOOLEAN]

\* Run.go is called on a new Run object, in a new workdir or in the
\* workdir of an earlier run
InitRun ==
    /\ cli \in RunOptions
    /\ runYaml \in RunFiles
    /\ steps = cli.steps
    /\ opt \in [dry : {FALSE}, executeDry : {FALSE}, remove : {FALSE}]
    /\ run = NoRun
    /\ went = <<>>
    /\ pc = "run"
    /\ data = [execute |-> 1, finish |-> <<>>]
    /\ status = [s \in StepNames |-> "todo"]
    /\ phases = [s \in StepNames |-> <<>>]
    /\ tests = 0
    /\ guests = <<>>
    /\ results = <<>>
    /\ stepYaml = [s \in StepNames |-> "none"]
    /\ resultsYaml = [exists |-> FALSE, data |-> <<>>]
    /\ i = 0
    /\ abort = FALSE
    /\ exc = NoExc
    /\ calls = <<>>
    /\ ops = <<>>
    /\ warned = {}
    /\ last = NoCall
    /\ plans = <<>>
    /\ exits = <<>>
    /\ plugins = NotChecked
    /\ input = <<>>
    /\ output = <<>>

NextRun ==
    \/ Run_workdir
    \/ Run_load
    \/ Run_select
    \/ Run_summary
    \/ Run_plan_go
    \/ Run_plans_end
    \/ Run_finish

SpecRun == InitRun /\ [][NextRun]_vars

\* every combination of the step options, with up to MaxSkip skipped steps
\* and up to one step enabled by its subcommand
SelectOptions ==
    [where : {NoOptions.where},
     provisionDry : {NoOptions.provisionDry},
     planOption : {NoOptions.planOption},
     match : {NoOptions.match},
     enabled : {NoOptions.enabled},
     steps : {{}} \cup {{e} : e \in StepNames},
     all : BOOLEAN,
     since : StepNames \cup {"none"},
     until : StepNames \cup {"none"},
     after : StepNames \cup {"none"},
     before : StepNames \cup {"none"},
     skip : {S \in SUBSET StepNames : Cardinality(S) <= MaxSkip},
     environmentFiles : {NoOptions.environmentFiles},
     environment : {NoOptions.environment}]

\* Run.go in a new workdir, about to enable the steps
InitSelect ==
    /\ cli \in SelectOptions
    /\ runYaml = NoFile
    /\ steps = cli.steps
    /\ opt = [dry |-> FALSE, executeDry |-> FALSE, remove |-> FALSE]
    /\ run = Workdir_load(NoRun)
    /\ went = <<Event("workdir", "none", FALSE), Event("load", "none", FALSE)>>
    /\ pc = "select"
    /\ data = [execute |-> 1, finish |-> <<>>]
    /\ status = [s \in StepNames |-> "todo"]
    /\ phases = [s \in StepNames |-> <<>>]
    /\ tests = 0
    /\ guests = <<>>
    /\ results = <<>>
    /\ stepYaml = [s \in StepNames |-> "none"]
    /\ resultsYaml = [exists |-> FALSE, data |-> <<>>]
    /\ i = 0
    /\ abort = FALSE
    /\ exc = NoExc
    /\ calls = <<>>
    /\ ops = <<>>
    /\ warned = {}
    /\ last = NoCall
    /\ plans = <<>>
    /\ exits = <<>>
    /\ plugins = NotChecked
    /\ input = <<>>
    /\ output = <<>>

NextSelect == Run_select

SpecSelect == InitSelect /\ [][NextSelect]_vars

\* ------------------------------------------------------- claims on Run.go

\* the go() calls of the plans made so far
GoEvents == SelectSeq(went, LAMBDA e : e.op = "go")

\* the stages of Run.go passed so far
Stages == {went[n].op : n \in DOMAIN went}

\* C14: right after Run.load, the plans of the run are restored from
\* run.yaml exactly if run.yaml exists and no plan option was given, and
\* the enabled steps are those of run.yaml exactly if run.yaml exists, no
\* step option was given and no step was enabled by its subcommand;
\* otherwise the plans are still to be selected from the command line and
\* the enabled steps are the ones the command line enabled.
C14_LoadKeepsSelection ==
    pc = "select" =>
        /\ run.selected <=> (runYaml.exists /\ ~cli.planOption)
        /\ run.selected =>
              run.plans = SelectSeq(TreePlans,
                                    LAMBDA p : p \in Range(runYaml.plans))
        /\ IF runYaml.exists /\ cli.steps = {} /\ ~StepOptionGiven(cli)
           THEN steps = runYaml.steps
           ELSE steps = cli.steps

\* the command line gave a plan option and enabled a step, run.yaml holds
\* other plans and steps: nothing is restored
C14_Witness ==
    /\ pc = "select"
    /\ runYaml.exists
    /\ runYaml.plans = <<"/plans/a">>
    /\ runYaml.steps = {"prepare"}
    /\ cli.planOption
    /\ cli.match = {"/plans/b"}
    /\ cli.steps = {"discover"}
    /\ ~run.selected
    /\ steps = {"discover"}

\* without any selection on the command line both are restored
C14_RestoredReached ==
    /\ pc = "select"
    /\ runYaml.exists
    /\ runYaml.plans = <<"/plans/b">>
    /\ ~cli.planOption
    /\ cli.steps = {}
    /\ ~StepOptionGiven(cli)
    /\ run.selected
    /\ run.plans = <<"/plans/b">>
    /\ steps = {"prepare"}

\* a step option alone keeps the steps of run.yaml away
C14_SkipReached ==
    /\ pc = "select"
    /\ runYaml.exists
    /\ runYaml.steps = {"prepare"}
    /\ cli.skip = {"report"}
    /\ cli.steps = {}
    /\ steps = {}

\* the step is not before the first step of the options
FromFirst(s) ==
    IF cli.since # "none" THEN Index(s) >= Index(cli.since)
    ELSE IF cli.after # "none" THEN Index(s) > Index(cli.after)
    ELSE TRUE

\* the step is not after the last step of the options
UpToLast(s) ==
    IF cli.until # "none" THEN Index(s) <= Index(cli.until)
    ELSE IF cli.before # "none" THEN Index(s) < Index(cli.before)
    ELSE TRUE

\* C15: when no step is enabled before the selection of Run.go, the steps
\* enabled after it are exactly those not skipped, from since (else from
\* the step after after, else from discover) up to until (else up to the
\* step before before, else up to finish), for every combination of the
\* six options.
C15_StepRange ==
    (pc = "plans" /\ cli.steps = {}) =>
        \A s \in StepNames :
            s \in steps <=> (s \notin cli.skip /\ FromFirst(s) /\ UpToLast(s))

\* after and before are exclusive bounds, and the skipped step is left out
C15_Witness ==
    /\ pc = "plans"
    /\ cli.steps = {}
    /\ cli.since = "none" /\ cli.after = "discover"
    /\ cli.until = "none" /\ cli.before = "finish"
    /\ cli.skip = {"execute"}
    /\ steps = {"provision", "prepare", "report"}

\* since wins over after, until over before
C15_SinceReached ==
    /\ pc = "plans"
    /\ cli.steps = {}
    /\ cli.since = "prepare" /\ cli.after = "execute"
    /\ cli.until = "report" /\ cli.before = "provision"
    /\ steps = {"prepare", "execute", "report"}

\* an empty range enables nothing
C15_EmptyReached ==
    /\ pc = "plans"
    /\ cli.steps = {}
    /\ cli.after = "finish"
    /\ cli.since = "none"
    /\ steps = {}

\* C17: when the plans of the run have been looked up and there is none,
\* Run.go has ended with the GeneralError of the lookup, run.yaml was not
\* saved and go() was invoked on no plan.
C17_NoPlansIsFatal ==
    (run.selected /\ run.plans = <<>> /\ pc \notin {"select", "plans"}) =>
        /\ pc = "raised"
        /\ exc = Raise("GeneralError", "none", "plans")
        /\ "save" \notin Stages
        /\ GoEvents = <<>>
        /\ exits = <<>>

\* the plan options select no plan of the tree
C17_Witness ==
    /\ pc = "raised"
    /\ exc.op = "plans"
    /\ cli.planOption
    /\ cli.match = {}
    /\ cli.enabled = PlanNames
    /\ run.selected
    /\ run.plans = <<>>
    /\ Stages = {"workdir", "load"}

\* other ways to no plan: a disabled plan, and a run.yaml without plans
C17_DisabledReached ==
    /\ pc = "raised"
    /\ exc.op = "plans"
    /\ cli.match = {"/plans/a"}
    /\ cli.enabled = {"/plans/b"}

C17_RestoredReached ==
    /\ pc = "raised"
    /\ exc.op = "plans"
    /\ ~cli.planOption
    /\ cli.enabled = PlanNames
    /\ runYaml.exists
    /\ runYaml.plans = <<>>

\* C18: when the path of the workdir lies inside the root of the tree,
\* Run.go ends with the GeneralError of the path check, the workdir is not
\* created, run.yaml is neither loaded nor saved and no plan runs.
C18_WorkdirInsideRootRefused ==
    (cli.where = "inside" /\ pc # "run") =>
        /\ pc = "raised"
        /\ exc = Raise("GeneralError", "none", "workdir")
        /\ ~run.workdir
        /\ Stages \cap {"load", "save"} = {}
        /\ GoEvents = <<>>

\* what the path check does keep away: the load, the save and the plans
C18_NothingElseDone ==
    (InsideRoot /\ pc # "run") =>
        /\ pc = "raised"
        /\ exc = Raise("GeneralError", "none", "workdir")
        /\ Stages = {"workdir"}

\* C19: the plans go one after another in the order of the selection;
\* Run.finish is invoked only when go() of every selected plan has
\* returned; and when go() of a plan raises, Run.go ends with that
\* exception, no further plan goes and no exit code is computed.
C19_FinishAfterAllPlans ==
    /\ Len(GoEvents) <= Len(run.plans)
    /\ \A n \in DOMAIN GoEvents :
          /\ GoEvents[n].plan = run.plans[n]
          /\ GoEvents[n].raised =>
                /\ n = Len(GoEvents)
                /\ pc = "raised"
                /\ exits = <<>>
    /\ (pc \in {"finish", "returned", "exited"} \/ exits # <<>>) =>
          /\ Len(GoEvents) = Len(run.plans)
          /\ \A n \in DOMAIN GoEvents : ~GoEvents[n].raised

\* both plans went, in the order of the tree, and the exit code is 1
C19_Witness ==
    /\ pc = "exited"
    /\ run.plans = TreePlans
    /\ Len(GoEvents) = Len(TreePlans)
    /\ exits = <<1>>

\* go() of the second plan raised
C19_RaisedReached ==
    /\ pc = "raised"
    /\ run.plans = TreePlans
    /\ Len(GoEvents) = Len(TreePlans)
    /\ ~GoEvents[1].raised
    /\ GoEvents[Len(GoEvents)].raised
    /\ exits = <<>>

\* ---------------------------------------------------------- Result.__init__

\* the values of the result attribute of a test: unset, the ways to
\* interpret the outcome, and one that is none of them
Interprets == {"none", "respect", "custom", "xfail", "bogus"} \cup Outcomes

\* data['result']: an outcome, one that is none of the five, or no key
RawResults == Outcomes \cup {"bogus", "missing"}

\* data.get('note'): None, the empty string, a string, or a list
NoNote == [type |-> "none", parts |-> <<>>]

Notes ==
    {NoNote, [type |-> "list", parts |-> <<>>]}
        \cup [type : {"str"}, parts : {<<>>, <<"note">>}]

\* f'original result: {self.result}'
OriginalResult ==
    [o \in Outcomes |->
        CASE o = "pass" -> "original result: pass"
          [] o = "fail" -> "original result: fail"
          [] o = "info" -> "original result: info"
          [] o = "warn" -> "original result: warn"
          [] o = "error" -> "original result: error"]

\* the constructor raised
Failed(kind) ==
    [raised |-> kind, name |-> "none", result |-> "none", note |-> NoNote]

\* the constructor returned
Constructed(name, result, note) ==
    [raised |-> "none", name |-> name, result |-> result, note |-> note]

Xfail_keep(result) == result

\* {'fail': 'pass', 'pass': 'fail'}.get(self.result, self.result)
Xfail(result) ==
    CASE result = "fail" -> "pass"
      [] result = "pass" -> "fail"
      [] OTHER -> result

\* self.note and isinstance(self.note, str)
IsText(note) == note.type = "str" /\ note.parts # <<>>

Noted_keep(note, result) == note

\* the note with the original result, for a string or for None
Noted(note, result) ==
    IF IsText(note)
    THEN [note EXCEPT !.parts = @ \o <<", ", OriginalResult[result]>>]
    ELSE [type |-> "str", parts |-> <<OriginalResult[result]>>]

Interpret_xfail(test) == "xfail"

\* test.result or 'respect', or 'respect' without a test
Interpret(test) ==
    IF test.given /\ test.result # "none" THEN test.result ELSE "respect"

\* Result.__init__(data, name, test), with in.result and in.note for
\* data['result'] and data.get('note')
Result_init(in) ==
    LET interpret == Interpret(in.test)
        name == IF in.name # "none" THEN in.name ELSE "test.name"
    IN IF ~in.test.given /\ in.name = "none"
       THEN Failed("SpecificationError")
       ELSE IF in.result \notin Outcomes
       THEN Failed("SpecificationError")
       ELSE IF interpret \in {"respect", "custom"}
       THEN Constructed(name, in.result, in.note)
       ELSE IF ~IsText(in.note) /\ in.note # NoNote
       THEN Failed("SpecificationError")
       ELSE IF interpret = "xfail"
       THEN Constructed(name, Xfail(in.result), Noted(in.note, in.result))
       ELSE IF interpret \in Outcomes
       THEN Constructed(name, interpret, Noted(in.note, in.result))
       ELSE Failed("SpecificationError")

\* the arguments of the constructor: with or without a test, with or
\* without a name
ResultInputs ==
    {in \in [test : [given : BOOLEAN, result : Interprets],
             name : {"none", "/test"},
             result : RawResults,
             note : Notes] :
        ~in.test.given => in.test.result = "none"}

\* the constructor is called
Construct ==
    /\ pc = "result"
    /\ output' = Result_init(input)
    /\ pc' = "returned"
    /\ UNCHANGED functionFrame

InitResult ==
    /\ FunctionIdle
    /\ pc = "result"
    /\ input \in ResultInputs
    /\ output = <<>>

NextResult == Construct

SpecResult == InitResult /\ [][NextResult]_vars

\* the Result was constructed from a test with the given result attribute
ConstructedWith(interpret) ==
    /\ pc = "returned"
    /\ output.raised = "none"
    /\ input.test.given
    /\ input.test.result = interpret

\* the note ends with the record of the raw outcome
NoteRecordsRaw ==
    /\ output.note.type = "str"
    /\ output.note.parts # <<>>
    /\ output.note.parts[Len(output.note.parts)] = OriginalResult[input.result]

\* C20: a Result constructed from a test whose result attribute is xfail
\* has the outcome pass for the raw outcome fail, fail for pass, and the
\* raw outcome for info, warn and error; its note is a string that ends
\* with the record of the raw outcome.
C20_XfailSwaps ==
    ConstructedWith("xfail") =>
        /\ input.result = "fail" => output.result = "pass"
        /\ input.result = "pass" => output.result = "fail"
        /\ input.result \in {"info", "warn", "error"} =>
              output.result = input.result
        /\ NoteRecordsRaw

\* a failed test expected to fail passes, and the note says it failed
C20_Witness ==
    /\ ConstructedWith("xfail")
    /\ input.result = "fail"
    /\ input.note = NoNote
    /\ output.result = "pass"
    /\ output.note.parts = <<"original result: fail">>

\* a warn stays a warn, and the record is added to the note of the data
C20_WarnReached ==
    /\ ConstructedWith("xfail")
    /\ input.result = "warn"
    /\ output.result = "warn"
    /\ output.note.parts = <<"note", ", ", "original result: warn">>

\* C21: a Result constructed from a test whose result attribute is one of
\* the five outcomes has that outcome whatever the raw outcome, and a note
\* that ends with the record of the raw outcome; with a result attribute
\* that is none of respect, custom, xfail and the five outcomes the
\* constructor raises SpecificationError.
C21_OutcomeReplaced ==
    /\ \A o \in Outcomes :
          ConstructedWith(o) => (output.result = o /\ NoteRecordsRaw)
    /\ (pc = "returned" /\ input.test.given /\ input.test.result = "bogus")
          => output.raised = "SpecificationError"

\* a test that passed is reported as an error, the note says it passed
C21_Witness ==
    /\ ConstructedWith("error")
    /\ input.result = "pass"
    /\ input.note = NoNote
    /\ output.result = "error"
    /\ output.note.parts = <<"original result: pass">>

\* the unknown attribute is refused for a valid outcome and a valid note
C21_BogusReached ==
    /\ pc = "returned"
    /\ input.test.given
    /\ input.test.result = "bogus"
    /\ input.result = "pass"
    /\ input.note = NoNote
    /\ output.raised = "SpecificationError"

\* C22: a Result constructed without a test, or from a test whose result
\* attribute is respect, custom or unset, has the raw outcome and the raw
\* note.
C22_RespectKeepsRaw ==
    (/\ pc = "returned"
     /\ output.raised = "none"
     /\ \/ ~input.test.given
        \/ input.test.result \in {"respect", "custom", "none"})
    => /\ output.result = input.result
       /\ output.note = input.note

\* by name only, a fail with a note stays as it is
C22_Witness ==
    /\ pc = "returned"
    /\ output.raised = "none"
    /\ ~input.test.given
    /\ input.name = "/test"
    /\ input.result = "fail"
    /\ input.note.parts = <<"note">>
    /\ output.result = "fail"
    /\ output.note = input.note

\* with custom, even a note that is not a string is kept
C22_CustomReached ==
    /\ pc = "returned"
    /\ output.raised = "none"
    /\ input.test.given
    /\ input.test.result = "custom"
    /\ input.note.type = "list"
    /\ output.note.type = "list"

\* ------------------------------------------------------------ Result.total

\* the length of the lists of results
MaxTotal == 3

\* the lists of results of any outcomes
TotalInputs ==
    UNION {[1..n -> [name : {"/test"}, result : Outcomes]] : n \in 0..MaxTotal}

\* Result.total is called on the list
Total ==
    /\ pc = "total"
    /\ output' = Result_total(input)
    /\ pc' = "returned"
    /\ UNCHANGED functionFrame

InitTotal ==
    /\ FunctionIdle
    /\ pc = "total"
    /\ input \in TotalInputs
    /\ output = <<>>

NextTotal == Total

SpecTotal == InitTotal /\ [][NextTotal]_vars

\* the number of results of the list with the outcome, one by one
RECURSIVE Count(_, _)
Count(rs, o) ==
    IF rs = <<>> THEN 0
    ELSE (IF Head(rs).result = o THEN 1 ELSE 0) + Count(Tail(rs), o)

\* C23: the mapping Result.total returns has the five outcomes as its
\* keys, each with the number of results of that outcome, and its values
\* sum to the number of results.
C23_TotalCounts ==
    pc = "returned" =>
        /\ DOMAIN output = Outcomes
        /\ \A o \in Outcomes : output[o] = Count(input, o)
        /\ SumOver(output, Outcomes) = Len(input)

\* two passes and a fail
C23_Witness ==
    /\ pc = "returned"
    /\ Len(input) = 3
    /\ output = [pass |-> 2, fail |-> 1, info |-> 0, warn |-> 0, error |-> 0]

\* the empty list
C23_EmptyReached ==
    /\ pc = "returned"
    /\ input = <<>>
    /\ output = [o \in Outcomes |-> 0]

\* ------------------------------------------------------------------- links

\* the number of links in a list of links
MaxLinks == 2

\* a raw value of fmf data: None, a string, a mapping, a list, or a value
\* of another type; "absent" marks a key that a mapping does not have
Val(type, text, dict) == [type |-> type, text |-> text, dict |-> dict]

NoneVal == Val("none", "None", <<>>)

StrVal(text) == Val("str", text, <<>>)

DictVal(dict) == Val("dict", "None", dict)

ListVal(list) == Val("list", "None", list)

IntVal == Val("int", "None", <<>>)

AbsentVal == Val("absent", "None", <<>>)

\* the mapping that holds the keys of the record that are not absent
Present(r) == [k \in {k \in DOMAIN r : r[k] # AbsentVal} |-> r[k]]

\* FmfId.keys
FmfId_keys == {"url", "ref", "path", "name"}

\* Links._relations
Links_relations ==
    {"verifies", "verified-by", "implements", "implemented-by",
     "documents", "documented-by", "blocks", "blocked-by",
     "duplicates", "duplicated-by", "parent", "child", "relates"}

\* Link.DEFAULT_RELATIONSHIP
DEFAULT_RELATIONSHIP == "relates"

\* FmfId.from_dict: raw.get(key, None) for each of the keys
FmfId_from_dict(raw) ==
    [k \in FmfId_keys |-> IF k \in DOMAIN raw THEN raw[k] ELSE NoneVal]

\* FmfId.to_dict: dataclasses.asdict, all four keys
FmfId_to_dict(id) == [k \in FmfId_keys |-> id[k]]

\* a target that is an fmf id
IdVal(id) == Val("fmfid", "None", id)

\* Link(relation, target, note)
Link(relation, target, note) ==
    [raised |-> "none", relation |-> relation, target |-> target,
     note |-> note]

\* Link.from_raw raised
NoLink(kind) ==
    [raised |-> kind, relation |-> "none", target |-> NoneVal,
     note |-> NoneVal]

\* the keys of the mapping that are neither keys of an fmf id nor note
RelationsOf(dict) == DOMAIN dict \ (FmfId_keys \cup {"note"})

Link_from_raw_any(spec) ==
    IF spec.type = "str"
    THEN Link(DEFAULT_RELATIONSHIP, spec, NoneVal)
    ELSE LET note == IF "note" \in DOMAIN spec.dict
                     THEN spec.dict["note"] ELSE NoneVal
             relations == RelationsOf(spec.dict)
             relation == CHOOSE r \in relations : TRUE
         IN IF relations = {}
            THEN Link(DEFAULT_RELATIONSHIP,
                      IdVal(FmfId_from_dict(spec.dict)), note)
            ELSE IF spec.dict[relation].type = "str"
            THEN Link(relation, spec.dict[relation], note)
            ELSE Link(relation,
                      IdVal(FmfId_from_dict(spec.dict[relation].dict)), note)

\* Link.from_raw; a spec that is neither a string nor a mapping has no
\* get(): AttributeError
Link_from_raw(spec) ==
    IF spec.type = "str"
    THEN Link(DEFAULT_RELATIONSHIP, spec, NoneVal)
    ELSE IF spec.type # "dict"
    THEN NoLink("AttributeError")
    ELSE LET note == IF "note" \in DOMAIN spec.dict
                     THEN spec.dict["note"] ELSE NoneVal
             relations == RelationsOf(spec.dict)
             relation == CHOOSE r \in relations : TRUE
         IN IF relations = {}
            THEN Link(DEFAULT_RELATIONSHIP,
                      IdVal(FmfId_from_dict(spec.dict)), note)
            ELSE IF Cardinality(relations) > 1
            THEN NoLink("SpecificationError")
            ELSE IF relation \notin Links_relations
            THEN NoLink("SpecificationError")
            ELSE IF spec.dict[relation].type = "str"
            THEN Link(relation, spec.dict[relation], note)
            ELSE Link(relation,
                      IdVal(FmfId_from_dict(spec.dict[relation].dict)), note)

Link_to_raw_nonote(link) ==
    DictVal([k \in {link.relation} |->
                IF link.target.type = "fmfid"
                THEN DictVal(FmfId_to_dict(link.target.dict))
                ELSE link.target])

\* Link.to_raw: the relation with the target, and the note if there is one
Link_to_raw(link) ==
    DictVal([k \in {link.relation}
                      \cup (IF link.note # NoneVal THEN {"note"} ELSE {}) |->
                IF k = "note" THEN link.note
                ELSE IF link.target.type = "fmfid"
                THEN DictVal(FmfId_to_dict(link.target.dict))
                ELSE link.target])

\* the first exception of the links, "none" if there is none
RECURSIVE FirstRaised(_)
FirstRaised(links) ==
    IF links = <<>> THEN "none"
    ELSE IF Head(links).raised # "none" THEN Head(links).raised
    ELSE FirstRaised(Tail(links))

\* Links.__init__(data), raw being the data: the links in their canonical form
Links_init(raw) ==
    IF raw.type \notin {"none", "str", "dict", "list"}
    THEN [raised |-> "SpecificationError", links |-> <<>>]
    ELSE IF raw.type = "none"
    THEN [raised |-> "none", links |-> <<>>]
    ELSE LET specs == IF raw.type = "list" THEN raw.dict ELSE <<raw>>
             links == [n \in DOMAIN specs |-> Link_from_raw(specs[n])]
         IN IF FirstRaised(links) # "none"
            THEN [raised |-> FirstRaised(links), links |-> <<>>]
            ELSE [raised |-> "none", links |-> links]

\* the mappings of the link specifications: each key of an fmf id and the
\* note absent or a string, each relation absent, a string or an fmf id
OptVals == {AbsentVal, StrVal("x")}

TargetVals ==
    OptVals \cup {DictVal(Present(id)) : id \in [FmfId_keys -> OptVals]}

SpecRecords ==
    [url : OptVals, ref : OptVals, path : OptVals, name : OptVals,
     note : OptVals, verifies : TargetVals, relates : TargetVals,
     bogus : OptVals]

\* some link specifications for the lists: a string, a relation with a
\* string and with an fmf id and a note, an fmf id, two relations, an
\* unknown relation
ListSpecs ==
    {StrVal("x"),
     DictVal([k \in {"verifies"} |-> StrVal("x")]),
     DictVal([k \in {"relates", "note"} |->
                 IF k = "note" THEN StrVal("x")
                 ELSE DictVal([n \in {"name"} |-> StrVal("x")])]),
     DictVal([k \in {"name", "url"} |-> StrVal("x")]),
     DictVal([k \in {"verifies", "relates"} |-> StrVal("x")]),
     DictVal([k \in {"bogus"} |-> StrVal("x")])}

\* the link data: None, a number, a string, a mapping, or a list
LinksInputs ==
    {NoneVal, IntVal, StrVal("x")}
        \cup [type : {"record"}, text : {"None"}, dict : SpecRecords]
        \cup {ListVal(l) :
                 l \in UNION {[1..n -> ListSpecs] : n \in 0..MaxLinks}}

\* the raw data of an input
LinksData(in) ==
    IF in.type = "record" THEN DictVal(Present(in.dict)) ELSE in

\* Links(data) is constructed
Links_new ==
    /\ pc = "links"
    /\ output' = Links_init(LinksData(input))
    /\ pc' = "returned"
    /\ UNCHANGED functionFrame

InitLinks ==
    /\ FunctionIdle
    /\ pc = "links"
    /\ input \in LinksInputs
    /\ output = <<>>

NextLinks == Links_new

SpecLinks == InitLinks /\ [][NextLinks]_vars

\* C24: every Link that Link.from_raw made of a string, of an fmf id or
\* of a mapping with one relation, with or without a note, is equal to
\* the Link that Link.from_raw makes of its to_raw().
C24_LinkRoundTrip ==
    (pc = "returned" /\ output.raised = "none") =>
        \A n \in DOMAIN output.links :
            Link_from_raw(Link_to_raw(output.links[n])) = output.links[n]

\* an fmf id with a note, given without a relation: the raw form of its
\* Link names the relation and all four keys, and parses to the same Link
C24_Witness ==
    /\ pc = "returned"
    /\ output.raised = "none"
    /\ LinksData(input).type = "dict"
    /\ DOMAIN LinksData(input).dict = {"name", "note"}
    /\ Len(output.links) = 1
    /\ output.links[1].relation = "relates"
    /\ output.links[1].target.type = "fmfid"
    /\ output.links[1].note = StrVal("x")
    /\ DOMAIN Link_to_raw(output.links[1]).dict = {"relates", "note"}
    /\ DOMAIN Link_to_raw(output.links[1]).dict["relates"].dict = FmfId_keys

\* the other forms: a string, and a relation with a string
C24_StringReached ==
    /\ pc = "returned"
    /\ input = StrVal("x")
    /\ output.links = <<Link("relates", StrVal("x"), NoneVal)>>

C24_RelationReached ==
    /\ pc = "returned"
    /\ output.raised = "none"
    /\ LinksData(input).type = "dict"
    /\ DOMAIN LinksData(input).dict = {"verifies"}
    /\ output.links = <<Link("verifies", StrVal("x"), NoneVal)>>

\* the link specifications of the data: the elements of a list, else the
\* data itself
SpecsOf(raw) ==
    IF raw.type = "list" THEN {raw.dict[n] : n \in DOMAIN raw.dict}
    ELSE IF raw.type = "none" THEN {}
    ELSE {raw}

\* the keys of a mapping that stand for relations
RelationKeys(spec) ==
    DOMAIN spec.dict \ {"url", "ref", "path", "name", "note"}

\* a mapping with several relation keys, or with one that is not supported
BadMapping(spec) ==
    /\ spec.type = "dict"
    /\ \/ Cardinality(RelationKeys(spec)) > 1
       \/ \E r \in RelationKeys(spec) : r \notin Links_relations

\* C25: link data that is neither None, a string, a mapping nor a list,
\* and link data with a mapping that has more than one relation key or a
\* relation key that is not supported, make the constructor of Links
\* raise SpecificationError: no link is made.
C25_BadLinkRaises ==
    (/\ pc = "returned"
     /\ \/ LinksData(input).type \notin {"none", "str", "dict", "list"}
        \/ \E spec \in SpecsOf(LinksData(input)) : BadMapping(spec))
    => /\ output.raised = "SpecificationError"
       /\ output.links = <<>>

\* a mapping with two supported relations
C25_Witness ==
    /\ pc = "returned"
    /\ LinksData(input).type = "dict"
    /\ DOMAIN LinksData(input).dict = {"verifies", "relates", "note"}
    /\ output.raised = "SpecificationError"

\* a mapping with one relation that is not supported, alone and as the
\* second link of a list; and data that is a number
C25_UnknownReached ==
    /\ pc = "returned"
    /\ LinksData(input).type = "dict"
    /\ DOMAIN LinksData(input).dict = {"bogus"}
    /\ output.raised = "SpecificationError"

C25_ListReached ==
    /\ pc = "returned"
    /\ input.type = "list"
    /\ Len(input.dict) = 2
    /\ input.dict[1] = StrVal("x")
    /\ DOMAIN input.dict[2].dict = {"bogus"}
    /\ output.raised = "SpecificationError"
    /\ output.links = <<>>

C25_NumberReached ==
    /\ pc = "returned"
    /\ input = IntVal
    /\ output.raised = "SpecificationError"

\* ------------------------------------------------------------- LinkNeedle

\* the characters of the strings that needles are matched against
Chars ==
    [t \in {"", "x", "xy", "verifies", "verified-by", "relates"} |->
        CASE t = "" -> <<>>
          [] t = "x" -> <<"x">>
          [] t = "xy" -> <<"x", "y">>
          [] t = "verifies" -> <<"v", "e", "r", "i", "f", "i", "e", "s">>
          [] t = "verified-by" ->
                <<"v", "e", "r", "i", "f", "i", "e", "d", "-", "b", "y">>
          [] t = "relates" -> <<"r", "e", "l", "a", "t", "e", "s">>]

\* the patterns of the needles: the default '.*', or literal characters
AnyPattern == [any |-> TRUE, chars |-> <<>>]

Literal(chars) == [any |-> FALSE, chars |-> chars]

\* re.search(pattern, text) is not None: the characters of the pattern
\* stand somewhere in the text
Search(pattern, text) ==
    \/ pattern.any
    \/ \E n \in 1..(Len(Chars[text]) + 1) :
          /\ n + Len(pattern.chars) - 1 <= Len(Chars[text])
          /\ SubSeq(Chars[text], n, n + Len(pattern.chars) - 1) = pattern.chars

LinkNeedle_matches_anyId(needle, link) ==
    IF ~Search(needle.relation, link.relation) THEN FALSE
    ELSE IF link.target.type = "str"
    THEN Search(needle.target, link.target.text)
    ELSE IF link.target.dict["name"].type = "str"
            /\ link.target.dict["name"].text # ""
    THEN Search(needle.target, link.target.dict["name"].text)
    ELSE needle.target.any

\* LinkNeedle.matches(link)
LinkNeedle_matches(needle, link) ==
    IF ~Search(needle.relation, link.relation) THEN FALSE
    ELSE IF link.target.type = "str"
    THEN Search(needle.target, link.target.text)
    ELSE IF link.target.dict["name"].type = "str"
            /\ link.target.dict["name"].text # ""
    THEN Search(needle.target, link.target.dict["name"].text)
    ELSE FALSE

\* needles with the default and with literal patterns
Needles ==
    [relation : {AnyPattern, Literal(<<>>), Literal(Chars["relates"]),
                 Literal(SubSeq(Chars["verifies"], 1, 7))},
     target : {AnyPattern, Literal(Chars["x"]), Literal(<<"y">>),
               Literal(Chars["xy"])}]

\* links to a string and to an fmf id with or without a name
NeedleLinks ==
    {Link(r, tg, NoneVal) :
        r \in {"verifies", "verified-by", "relates"},
        tg \in {StrVal("x"), StrVal("xy")}
                \cup {IdVal([k \in FmfId_keys |->
                                IF k = "name" THEN n
                                ELSE IF k = "url" THEN u ELSE NoneVal]) :
                         n \in {NoneVal, StrVal(""), StrVal("x"), StrVal("xy")},
                         u \in {NoneVal, StrVal("xy")}}}

\* needle.matches(link) is called
Match ==
    /\ pc = "needle"
    /\ output' = LinkNeedle_matches(input.needle, input.link)
    /\ pc' = "returned"
    /\ UNCHANGED functionFrame

InitNeedle ==
    /\ FunctionIdle
    /\ pc = "needle"
    /\ input \in [needle : Needles, link : NeedleLinks]
    /\ output = FALSE

NextNeedle == Match

SpecNeedle == InitNeedle /\ [][NextNeedle]_vars

\* the text of the link that the target pattern is searched in, if any
Searched(link) ==
    IF link.target.type = "str" THEN {link.target.text}
    ELSE IF link.target.dict["name"] \notin {NoneVal, StrVal("")}
    THEN {link.target.dict["name"].text}
    ELSE {}

\* C26: needle.matches(link) is true exactly if the relation pattern is
\* found in the relation of the link and the target pattern is found in
\* the target, for a target that is a string, or in the name of the
\* target, for an fmf id with a name; it is false for an fmf id without a
\* name.
C26_NeedleMatches ==
    pc = "returned" =>
        /\ output <=>
              /\ Search(input.needle.relation, input.link.relation)
              /\ \E text \in Searched(input.link) :
                    Search(input.needle.target, text)
        /\ (input.link.target.type = "fmfid"
               /\ input.link.target.dict["name"] = NoneVal) => ~output

\* the pattern "verifie" is found in verified-by and "y" in the name xy
C26_Witness ==
    /\ pc = "returned"
    /\ output
    /\ input.needle.relation = Literal(SubSeq(Chars["verifies"], 1, 7))
    /\ input.needle.target = Literal(<<"y">>)
    /\ input.link.relation = "verified-by"
    /\ input.link.target.type = "fmfid"
    /\ input.link.target.dict["name"] = StrVal("xy")

\* an fmf id without a name is not matched, whatever its url and even by
\* the default needle
C26_NoNameReached ==
    /\ pc = "returned"
    /\ ~output
    /\ input.needle = [relation |-> AnyPattern, target |-> AnyPattern]
    /\ input.link.target.type = "fmfid"
    /\ input.link.target.dict["name"] = NoneVal
    /\ input.link.target.dict["url"] = StrVal("xy")

\* the target pattern is not found in the string
C26_MissReached ==
    /\ pc = "returned"
    /\ ~output
    /\ input.needle.relation = AnyPattern
    /\ input.needle.target = Literal(<<"y">>)
    /\ input.link.target = StrVal("x")

\* ------------------------------------------------------------- Tree queries

MaxNodes == 3   \* nodes of the metadata tree

\* re.search(pattern, name) raises TypeError for a name that is no string:
\* the relation is found, the target is an fmf id and its name is a number
LinkNeedle_raises(needle, link) ==
    /\ Search(needle.relation, link.relation)
    /\ link.target.type = "fmfid"
    /\ link.target.dict["name"].type = "int"

RECURSIVE Links_has_link(_, _)
\* Links.has_link(needle): any() stops at the first link that matches
Links_has_link(needle, links) ==
    IF links = <<>> THEN "false"
    ELSE IF LinkNeedle_raises(needle, Head(links)) THEN "TypeError"
    ELSE IF LinkNeedle_matches(needle, Head(links)) THEN "true"
    ELSE Links_has_link(needle, Tail(links))

\* Core.has_link(needle)
Core_has_link(node, needle) ==
    IF ~node.link.present THEN "false"
    ELSE Links_has_link(needle, node.link.links)

RECURSIVE NoNeedleFound(_, _)
\* all(not node.has_link(needle) for needle in links)
NoNeedleFound(node, needles) ==
    IF needles = <<>> THEN "true"
    ELSE IF Core_has_link(node, Head(needles)) = "TypeError" THEN "TypeError"
    ELSE IF Core_has_link(node, Head(needles)) = "true" THEN "false"
    ELSE NoNeedleFound(node, Tail(needles))

LinksRemove_raise(node, needles) ==
    needles # <<>> /\ NoNeedleFound(node, needles) = "true"

\* the links section of the loop: the node is left out
LinksRemove(node, needles) ==
    needles # <<>> /\ NoNeedleFound(node, needles) \in {"true", "TypeError"}

\* the loop of Tree._filters_conditions leaves the node out
Removed(node, needles) ==
    \/ node.condition \in {"false", "FilterError"}
    \/ node.filter \in {"false", "FilterError"}
    \/ LinksRemove(node, needles)
    \/ node.excluded

\* Tree._filters_conditions(nodes, filters, conditions, links, excludes)
Tree_filters_conditions(nodes, needles) ==
    IF \E n \in DOMAIN nodes :
          /\ nodes[n].condition = "Exception"
          /\ \A k \in 1..(n - 1) : nodes[k].condition # "Exception"
    THEN [raised |-> "GeneralError", nodes |-> <<>>]
    ELSE [raised |-> "none",
          nodes |-> SelectSeq(nodes, LAMBDA node : ~Removed(node, needles))]

RECURSIVE Sorted(_)
\* sorted(nodes, key=lambda node: node.order): nodes of equal order keep
\* their places
Sorted(nodes) ==
    IF nodes = <<>> THEN <<>>
    ELSE LET node == nodes[Len(nodes)]
             front == Sorted(SubSeq(nodes, 1, Len(nodes) - 1))
         IN  SelectSeq(front, LAMBDA other : other.order <= node.order)
             \o <<node>>
             \o SelectSeq(front, LAMBDA other : other.order > node.order)

\* tree.prune(keys, names, sources): the nodes in the order of the tree that
\* one of the names, or of the sources, selects; all of them without names
Prune(tree, names) ==
    SelectSeq(tree, LAMBDA node :
        names = <<>> \/ \E k \in DOMAIN names : node.pos \in names[k])

\* name_filter(nodes) of Tree.tests
Name_filter(nodes, cmd_line_names) == Prune(nodes, cmd_line_names)

RECURSIVE PerName(_, _, _)
\* the loop over the names when duplicate tests are allowed
PerName(tree, names, cmd_line_names) ==
    IF names = <<>> THEN <<>>
    ELSE Sorted(Name_filter(Prune(tree, <<Head(names)>>), cmd_line_names))
         \o PerName(tree, Tail(names), cmd_line_names)

\* Tree.tests(names, unique, links)
Tree_tests(tree, query, needles) ==
    Tree_filters_conditions(
        IF query.source THEN Prune(tree, query.cmd_line_names)
        ELSE IF ~query.unique /\ query.names # <<>>
        THEN PerName(tree, query.names, query.cmd_line_names)
        ELSE Sorted(Name_filter(Prune(tree, query.names),
                                query.cmd_line_names)),
        needles)

\* Tree.plans(names, links)
Tree_plans_query(tree, query, needles) ==
    Tree_filters_conditions(
        Sorted(Prune(tree, query.names \o query.cmd_line_names)), needles)

\* Tree.stories(names, links)
Tree_stories(tree, query, needles) ==
    Tree_filters_conditions(
        Sorted(Prune(tree, query.names \o query.cmd_line_names)), needles)

\* the entity has no link attribute
NoLinks == [present |-> FALSE, links |-> <<>>]

HasLinks(links) == [present |-> TRUE, links |-> links]

\* a link to an fmf id whose name is a number
BrokenLink ==
    Link("verifies",
         IdVal([k \in FmfId_keys |-> IF k = "name" THEN IntVal ELSE NoneVal]),
         NoneVal)

VerifiesX == Link("verifies", StrVal("x"), NoneVal)

\* what a node of the tree holds: its order, what the conditions, the
\* filters and the excludes of the query make of it, and its links
TreeNode(order, condition, filter, excluded, link) ==
    [order |-> order, condition |-> condition, filter |-> filter,
     excluded |-> excluded, link |-> link]

TreeNodes ==
    {TreeNode(order, "true", "true", FALSE, NoLinks) : order \in {40, 50}}
    \cup {TreeNode(50, condition, "true", FALSE, NoLinks) :
            condition \in {"false", "FilterError", "Exception"}}
    \cup {TreeNode(50, "true", filter, FALSE, NoLinks) :
            filter \in {"false", "FilterError"}}
    \cup {TreeNode(50, "true", "true", TRUE, NoLinks)}
    \cup {TreeNode(50, "true", "true", FALSE, HasLinks(links)) :
            links \in {<<VerifiesX>>,
                       <<Link("relates", StrVal("xy"), NoneVal)>>,
                       <<BrokenLink, VerifiesX>>,
                       <<VerifiesX, BrokenLink>>}}

\* the queries: the entity, the --source option, the unique mode of
\* Tree.tests, the names of the caller and the names of the command line,
\* each name standing for the nodes it selects
Query(kind, source, unique, names, cmd_line_names) ==
    [kind |-> kind, source |-> source, unique |-> unique, names |-> names,
     cmd_line_names |-> cmd_line_names]

Queries ==
    {Query(kind, source, TRUE, names, <<>>) :
        kind \in {"plans", "stories"}, source \in BOOLEAN,
        names \in {<<>>, <<{2}, {1}>>}}
    \cup {Query("tests", source, unique, names, <<>>) :
            source \in BOOLEAN, unique \in BOOLEAN,
            names \in {<<>>, <<{2}, {1}>>}}
    \cup {Query("tests", source, unique, <<>>, <<{1, 2}>>) :
            source \in BOOLEAN, unique \in BOOLEAN}

NeedleLists ==
    {<<>>,
     <<[relation |-> Literal(Chars["verifies"]), target |-> AnyPattern]>>,
     <<[relation |-> AnyPattern, target |-> Literal(<<"y">>)],
       [relation |-> Literal(Chars["verifies"]), target |-> AnyPattern]>>}

\* the objects made of the nodes of the tree, each knowing its place
Nodes(in) ==
    [n \in 1..MaxNodes |->
        [pos |-> n, order |-> in.tree[n].order,
         condition |-> in.tree[n].condition, filter |-> in.tree[n].filter,
         excluded |-> in.tree[n].excluded, link |-> in.tree[n].link]]

Tree_query(in) ==
    CASE in.query.kind = "tests" ->
            Tree_tests(Nodes(in), in.query, in.needles)
      [] in.query.kind = "plans" ->
            Tree_plans_query(Nodes(in), in.query, in.needles)
      [] in.query.kind = "stories" ->
            Tree_stories(Nodes(in), in.query, in.needles)

\* the tree is queried
Search_tree ==
    /\ pc = "query"
    /\ output' = Tree_query(input)
    /\ pc' = "returned"
    /\ UNCHANGED functionFrame

InitTree ==
    /\ FunctionIdle
    /\ pc = "query"
    /\ input \in [tree : [1..MaxNodes -> TreeNodes], query : Queries,
                   needles : NeedleLists]
    /\ output = [raised |-> "none", nodes |-> <<>>]

NextTree == Search_tree

SpecTree == InitTree /\ [][NextTree]_vars

\* the entities come in ascending order, those of equal order in the order
\* of the tree, and each of them is an entity of the tree
InOrder(nodes) ==
    /\ \A a, b \in DOMAIN nodes :
          a < b => \/ nodes[a].order < nodes[b].order
                   \/ /\ nodes[a].order = nodes[b].order
                      /\ nodes[a].pos < nodes[b].pos
    /\ \A a \in DOMAIN nodes : nodes[a] = Nodes(input)[nodes[a].pos]

\* C27: Tree.plans, Tree.stories and Tree.tests in unique mode return the
\* entities in ascending order, entities of equal order in the order of
\* the tree; the filters, conditions, links and excludes only remove
\* entities and never reorder the ones that remain.
C27_QueryInOrder ==
    (pc = "returned" /\ output.raised = "none" /\ input.query.unique) =>
        InOrder(output.nodes)

\* the same holds of every query in unique mode but Tree.tests with the
\* --source option, which does not sort
C27_InOrderWithoutSource ==
    (pc = "returned" /\ output.raised = "none" /\ input.query.unique
        /\ ~(input.query.kind = "tests" /\ input.query.source)) =>
        InOrder(output.nodes)

\* Tree.tests with --source returns order 50 before order 40
C27_SourceReached ==
    /\ pc = "returned"
    /\ output.raised = "none"
    /\ input.query = Query("tests", TRUE, TRUE, <<>>, <<>>)
    /\ Len(output.nodes) = MaxNodes
    /\ output.nodes[1].order = 50
    /\ output.nodes[2].order = 40

\* a query that sorts: the node of order 40 comes first, the node between
\* the two of order 50 is removed and these keep the order of the tree
C27_SortedReached ==
    /\ pc = "returned"
    /\ output.raised = "none"
    /\ input.query = Query("plans", FALSE, TRUE, <<>>, <<>>)
    /\ input.tree[MaxNodes].order = 40
    /\ input.tree[2].excluded
    /\ Len(output.nodes) = MaxNodes - 1
    /\ output.nodes[1].pos = MaxNodes
    /\ output.nodes[2].pos = 1

\* the entities of the query that pass the criteria other than the links
PassOthers == Range(Tree_query([input EXCEPT !.needles = <<>>]).nodes)

\* needle k is tried on link n of the node before needle k2 on link n2
Before(k, n, k2, n2) == k < k2 \/ (k = k2 /\ n < n2)

\* a needle matches a link of the node, and no matching raised before
Matched(node) ==
    \E k \in DOMAIN input.needles, n \in DOMAIN node.link.links :
        /\ LinkNeedle_matches(input.needles[k], node.link.links[n])
        /\ \A k2 \in DOMAIN input.needles, n2 \in DOMAIN node.link.links :
              Before(k2, n2, k, n) =>
                  ~LinkNeedle_raises(input.needles[k2], node.link.links[n2])

\* matching a needle with a link of the node raised, and no needle had
\* matched before
MatchRaised(node) ==
    \E k \in DOMAIN input.needles, n \in DOMAIN node.link.links :
        /\ LinkNeedle_raises(input.needles[k], node.link.links[n])
        /\ \A k2 \in DOMAIN input.needles, n2 \in DOMAIN node.link.links :
              Before(k2, n2, k, n) =>
                  ~LinkNeedle_matches(input.needles[k2], node.link.links[n2])

\* C28: with a non-empty list of needles an entity that passes the other
\* criteria is kept exactly if one of the needles matches one of its
\* links; with an empty list no entity is removed for its links; and an
\* error raised while matching the links of an entity removes the entity
\* and does not fail the query.
C28_NeedlesAreOred ==
    pc = "returned" =>
        /\ output.raised = Tree_query([input EXCEPT !.needles = <<>>]).raised
        /\ output.raised = "none" =>
              \A node \in PassOthers :
                  /\ input.needles = <<>> => node \in Range(output.nodes)
                  /\ input.needles # <<>> =>
                        (node \in Range(output.nodes) <=> Matched(node))
                  /\ MatchRaised(node) => node \notin Range(output.nodes)

\* only the second needle matches the link of the first entity, the
\* matching of the second entity raises, and the query returns the first
C28_Witness ==
    /\ pc = "returned"
    /\ output.raised = "none"
    /\ Len(input.needles) = 2
    /\ input.query = Query("tests", FALSE, TRUE, <<>>, <<>>)
    /\ input.tree[1].link = HasLinks(<<VerifiesX>>)
    /\ input.tree[2].link = HasLinks(<<BrokenLink, VerifiesX>>)
    /\ MatchRaised(Nodes(input)[2])
    /\ ~LinkNeedle_matches(input.needles[1], VerifiesX)
    /\ {node.pos : node \in Range(output.nodes)} = {1}

\* without needles the entities with and without links are all returned
C28_NoNeedlesReached ==
    /\ pc = "returned"
    /\ input.needles = <<>>
    /\ input.query = Query("stories", FALSE, TRUE, <<>>, <<>>)
    /\ input.tree[1].link = NoLinks
    /\ input.tree[2].link = HasLinks(<<BrokenLink, VerifiesX>>)
    /\ Len(output.nodes) = MaxNodes

\* a needle matches the first link and the broken one is never tried
C28_MatchFirstReached ==
    /\ pc = "returned"
    /\ Len(input.needles) = 1
    /\ input.tree[1].link = HasLinks(<<VerifiesX, BrokenLink>>)
    /\ Nodes(input)[1] \in Range(output.nodes)

\* ------------------------------------------------- ExecutePlugin.check_*

MaxPartials == 2   \* results in the results.yaml of a test

\* tmt.utils.PROCESS_TIMEOUT, the return code of a test that was killed
\* for exceeding its duration
PROCESS_TIMEOUT == 124

ReturnCodes == {0, 1, 2, PROCESS_TIMEOUT}

\* a note that is a string
TextNote(parts) == [type |-> "str", parts |-> parts]

ShellResult_fail(returncode) ==
    IF returncode = 0 THEN "pass" ELSE "fail"

\* {0: 'pass', 1: 'fail'}[test.returncode], 'error' for the KeyError
ShellResult(returncode) ==
    CASE returncode = 0 -> "pass"
      [] returncode = 1 -> "fail"
      [] OTHER -> "error"

\* tmt.Result(data, test=test)
MadeOf(test, result, note) ==
    Result_init([test |-> [given |-> TRUE, result |-> test.result],
                 name |-> "none", result |-> result, note |-> note])

\* return [tmt.Result(data, test=test)], or the exception of the constructor
Checked(result) ==
    IF result.raised = "none"
    THEN [raised |-> "none", results |-> <<result>>]
    ELSE [raised |-> result.raised, results |-> <<>>]

\* the check method raised
CheckRaised(kind) == [raised |-> kind, results |-> <<>>]

\* ExecutePlugin.check_shell(test)
Check_shell(test) ==
    Checked(MadeOf(test, ShellResult(test.returncode),
                   IF test.returncode \notin {0, 1}
                      /\ test.returncode = PROCESS_TIMEOUT
                   THEN TextNote(<<"timeout">>)
                   ELSE NoNote))

\* result.lower()
Lower ==
    [text \in {"PASS", "FAIL", "BOGUS"} |->
        CASE text = "PASS" -> "pass"
          [] text = "FAIL" -> "fail"
          [] text = "BOGUS" -> "bogus"]

\* ExecutePlugin.check_beakerlib(test), file being TestResults
Check_beakerlib(test, file) ==
    IF ~file.exists
    THEN Checked(MadeOf(test, "error",
                        TextNote(<<"beakerlib: TestResults FileError">>)))
    ELSE IF file.result = "missing" \/ file.state = "missing"
    THEN Checked(MadeOf(test, "error",
                        TextNote(<<"beakerlib: Result/State missing">>)))
    ELSE IF test.returncode = PROCESS_TIMEOUT
    THEN Checked(MadeOf(test, "error", TextNote(<<"timeout">>)))
    ELSE IF file.state # "complete"
    THEN Checked(MadeOf(test, "error",
                        TextNote(<<"beakerlib: State '", file.state, "'">>)))
    ELSE Checked(MadeOf(test, Lower[file.result], NoNote))

\* str.strip() of the value of a line
Strip ==
    [text \in {"PASS\n", "FAIL\n", "SKIP\n", "WARN\n", " BOGUS\n"} |->
        CASE text = "PASS\n" -> "PASS"
          [] text = "FAIL\n" -> "FAIL"
          [] text = "SKIP\n" -> "SKIP"
          [] text = "WARN\n" -> "WARN"
          [] text = " BOGUS\n" -> "BOGUS"]

\* the restraint results and the tmt outcomes they stand for
Result_map ==
    [text \in {"PASS", "FAIL", "SKIP", "WARN"} |->
        CASE text = "PASS" -> "pass"
          [] text = "FAIL" -> "fail"
          [] text = "SKIP" -> "info"
          [] text = "WARN" -> "warn"]

\* ExecutePlugin.check_result_file(test), file being the file written by
\* tmt-report-result, each line split at the = signs
Check_result_file(test, file) ==
    IF ~file.exists THEN CheckRaised("FileError")
    ELSE LET result_list ==
                 SelectSeq(file.lines, LAMBDA line : line[1] = "TESTRESULT")
         IN  IF result_list = <<>> THEN CheckRaised("ExecuteError")
             ELSE IF Len(result_list[1]) < 2 THEN CheckRaised("IndexError")
             ELSE LET result == Strip[result_list[1][2]]
                  IN  IF result \in DOMAIN Result_map
                      THEN Checked(MadeOf(test, Result_map[result], NoNote))
                      ELSE Checked(MadeOf(test, "error",
                               TextNote(<<"invalid test result '", result,
                                          "' in result file">>)))

\* partial_result.name += partial_result_data['name']
NameJoin == [name \in {"/sub"} |-> "test.name/sub"]

RECURSIVE CustomResults(_, _)
\* the loop over the results of results.yaml
CustomResults(test, partials) ==
    IF partials = <<>> THEN [raised |-> "none", results |-> <<>>]
    ELSE LET partial_result == MadeOf(test, Head(partials).result, NoNote)
             rest == CustomResults(test, Tail(partials))
         IN  IF partial_result.raised # "none"
             THEN CheckRaised(partial_result.raised)
             ELSE IF Head(partials).name = "missing"
             THEN CheckRaised("KeyError")
             ELSE IF rest.raised # "none" THEN rest
             ELSE [raised |-> "none",
                   results |->
                       <<[partial_result EXCEPT
                             !.name = NameJoin[Head(partials).name]]>>
                       \o rest.results]

\* ExecutePlugin.check_custom_results(test), file being results.yaml
Check_custom_results(test, file) ==
    IF ~file.exists
    THEN Checked(MadeOf(test, "error",
                        TextNote(<<"custom results file '", "results.yaml",
                                   "' not found">>)))
    ELSE CustomResults(test, file.results)

\* the tests: the result attribute and the return code
CheckedTests ==
    [result : {"none", "respect", "xfail", "warn", "bogus"},
     returncode : ReturnCodes]

\* no file: it does not exist
NoTestFile ==
    [exists |-> FALSE, lines |-> <<>>, result |-> "missing",
     state |-> "missing", results |-> <<>>]

\* TestResults with or without TESTRESULT_RESULT_STRING and TESTRESULT_STATE
BeakerlibFiles ==
    {[NoTestFile EXCEPT !.exists = TRUE, !.result = result, !.state = state] :
        result \in {"missing", "PASS", "FAIL", "BOGUS"},
        state \in {"missing", "complete", "incomplete"}}

\* the file of tmt-report-result: empty, without a TESTRESULT line, with
\* one that has no value, and with one that has a known or unknown value
ResultFiles ==
    {[NoTestFile EXCEPT !.exists = TRUE, !.lines = lines] :
        lines \in {<<>>, <<<<"OUTPUTFILE", "/tmp/output\n">>>>,
                   <<<<"TESTRESULT">>>>}
                  \cup {<<<<"OUTPUTFILE", "/tmp/output\n">>,
                          <<"TESTRESULT", value>>>> : value \in DOMAIN Strip}}

\* results.yaml: results with or without a name, with a valid, an invalid
\* or no result
CustomFiles ==
    {[NoTestFile EXCEPT !.exists = TRUE, !.results = partials] :
        partials \in UNION {[1..n -> [name : {"/sub", "missing"},
                                      result : {"pass", "error", "bogus",
                                                "missing"}]] :
                               n \in 0..MaxPartials}}

CheckInputs ==
    [method : {"shell"}, test : CheckedTests, file : {NoTestFile}]
    \cup [method : {"beakerlib"}, test : CheckedTests,
          file : {NoTestFile} \cup BeakerlibFiles]
    \cup [method : {"result_file"}, test : CheckedTests,
          file : {NoTestFile} \cup ResultFiles]
    \cup [method : {"custom_results"}, test : CheckedTests,
          file : {NoTestFile} \cup CustomFiles]

\* one of the check methods is called for the test
Check ==
    /\ pc = "check"
    /\ output' =
          CASE input.method = "shell" -> Check_shell(input.test)
            [] input.method = "beakerlib" ->
                  Check_beakerlib(input.test, input.file)
            [] input.method = "result_file" ->
                  Check_result_file(input.test, input.file)
            [] input.method = "custom_results" ->
                  Check_custom_results(input.test, input.file)
    /\ pc' = "returned"
    /\ UNCHANGED functionFrame

InitCheck ==
    /\ FunctionIdle
    /\ pc = "check"
    /\ input \in CheckInputs
    /\ output = [raised |-> "none", results |-> <<>>]

NextCheck == Check

SpecCheck == InitCheck /\ [][NextCheck]_vars

\* the method was called for a test whose result attribute is read as
\* respect
CheckedAsIs(method) ==
    /\ pc = "returned"
    /\ input.method = method
    /\ input.test.result \in {"none", "respect"}

C29_OtherCodeReached ==
    /\ CheckedAsIs("shell")
    /\ input.test.returncode = 2
    /\ output.results[1].result = "error"
    /\ output.results[1].note = NoNote

\* the return code 1 is a fail
C29_FailReached ==
    /\ CheckedAsIs("shell")
    /\ input.test.returncode = 1
    /\ output.results[1].result = "fail"

\* the result file of the test is malformed: a file of tmt-report-result
\* without a TESTRESULT line or with an unknown value, TestResults that is
\* missing or lacks result or state, results.yaml that is missing or holds
\* an invalid result
NoResultLine ==
    /\ input.method = "result_file"
    /\ input.file.exists
    /\ \A n \in DOMAIN input.file.lines :
          input.file.lines[n][1] # "TESTRESULT"

UnknownResult ==
    /\ input.method = "result_file"
    /\ input.file.exists
    /\ \E n \in DOMAIN input.file.lines :
          /\ input.file.lines[n][1] = "TESTRESULT"
          /\ Len(input.file.lines[n]) = 2
          /\ Strip[input.file.lines[n][2]] \notin DOMAIN Result_map

BeakerlibMalformed ==
    /\ input.method = "beakerlib"
    /\ \/ ~input.file.exists
       \/ input.file.result = "missing"
       \/ input.file.state = "missing"

CustomMissing == input.method = "custom_results" /\ ~input.file.exists

CustomInvalid ==
    /\ input.method = "custom_results"
    /\ input.file.exists
    /\ \E n \in DOMAIN input.file.results :
          input.file.results[n].result = "bogus"
    /\ \A n \in DOMAIN input.file.results :
          /\ input.file.results[n].result # "missing"
          /\ input.file.results[n].name # "missing"

\* a result with the outcome error is returned, nothing is raised
ErrorReturned ==
    /\ output.raised = "none"
    /\ \E n \in DOMAIN output.results : output.results[n].result = "error"

\* C30: a malformed result file met during execute is turned into a result
\* with the outcome error and not into an exception.
C30_MalformedIsError ==
    (\/ CheckedAsIs("result_file") /\ (NoResultLine \/ UnknownResult)
     \/ CheckedAsIs("beakerlib") /\ BeakerlibMalformed
     \/ CheckedAsIs("custom_results") /\ (CustomMissing \/ CustomInvalid))
        => ErrorReturned

\* which holds of the malformed files other than the file of
\* tmt-report-result without a TESTRESULT line and the results.yaml with an
\* invalid result
C30_OthersAreErrors ==
    (\/ CheckedAsIs("result_file") /\ UnknownResult
     \/ CheckedAsIs("beakerlib") /\ BeakerlibMalformed
     \/ CheckedAsIs("custom_results") /\ CustomMissing)
        => ErrorReturned

\* no TESTRESULT line: check_result_file raises ExecuteError
C30_NoResultLineRaises ==
    (CheckedAsIs("result_file") /\ NoResultLine) =>
        output = CheckRaised("ExecuteError")

\* an invalid result in results.yaml: the constructor of the result raises
C30_CustomInvalidRaises ==
    (CheckedAsIs("custom_results") /\ CustomInvalid) =>
        output = CheckRaised("SpecificationError")

\* a file with lines and no TESTRESULT among them
C30_NoResultLineReached ==
    /\ CheckedAsIs("result_file")
    /\ NoResultLine
    /\ input.file.lines # <<>>
    /\ output.raised = "ExecuteError"

\* a valid result before the invalid one
C30_CustomInvalidReached ==
    /\ CheckedAsIs("custom_results")
    /\ CustomInvalid
    /\ Len(input.file.results) = 2
    /\ input.file.results[1].result = "pass"
    /\ output.raised = "SpecificationError"

\* an unknown value in the file of tmt-report-result is an error result
C30_UnknownReached ==
    /\ CheckedAsIs("result_file")
    /\ UnknownResult
    /\ ErrorReturned

\* ------------------------------------------------------- Finish.go, guests

\* the operations of the call that is made in this step
NewOps == SubSeq(ops', Len(ops) + 1, Len(ops'))

\* finish.go() is called on a step that is not done
FinishGoes ==
    /\ calls' # calls
    /\ last'.op = "go"
    /\ last'.step = "finish"
    /\ last'.before # "done"

\* the places of NewOps where the operation is made on the guest
Places(op, g) ==
    {n \in DOMAIN NewOps : NewOps[n].op = op /\ NewOps[n].guest = g}

\* C31: when Finish.go() runs on a step that is not done and returns,
\* stop() and then remove() have been invoked exactly once on every
\* provisioned guest, after every finish phase ran on every guest, and the
\* status is done; when a finish phase raises, the status does not become
\* done.
C31_FinishStopsGuests ==
    [][FinishGoes =>
        /\ last'.raised = "none" =>
              /\ \A g \in DOMAIN guests :
                    /\ Cardinality(Places("stop", g)) = 1
                    /\ Cardinality(Places("remove", g)) = 1
                    /\ \A n \in Places("stop", g), k \in Places("remove", g) :
                          n < k
                    /\ \A p \in DOMAIN phases.finish :
                          \E n \in Places("phase", g) :
                              NewOps[n].phase = phases.finish[p]
              /\ \A n, k \in DOMAIN NewOps :
                    (NewOps[n].op \in {"phase", "pull"}
                        /\ NewOps[k].op \in {"stop", "remove"}) => n < k
              /\ status'.finish = "done"
              /\ stepYaml'.finish = "done"
        /\ last'.raised # "none" =>
              /\ status'.finish # "done"
              /\ stepYaml' = stepYaml
              /\ \A n \in DOMAIN NewOps :
                    NewOps[n].op \notin {"stop", "remove"}]_vars

\* finish.go() returned with two guests and a phase: the guests are removed
C31_Witness ==
    /\ pc = "step"
    /\ last.op = "go"
    /\ last.step = "finish"
    /\ last.before = "todo"
    /\ last.raised = "none"
    /\ Len(guests) = 2
    /\ phases.finish # <<>>
    /\ \A g \in DOMAIN guests : guests[g] = "removed"
    /\ status.finish = "done"
    /\ ops[Len(ops)].op = "remove"

\* a finish phase raised: the guests are up and the step is not done
C31_RaisedReached ==
    /\ pc = "step"
    /\ last.op = "go"
    /\ last.step = "finish"
    /\ last.raised = "RunError"
    /\ guests # <<>>
    /\ \A g \in DOMAIN guests : guests[g] = "up"
    /\ status.finish = "todo"

\* ------------------------------------------- Execute.go, write by write

saveFrame ==
    <<steps, opt, data, phases, tests, guests, abort, exc, calls, warned,
      last, plans, exits, plugins, cli, run, runYaml, went>>

\* the loop of Execute.go: the next phase execution completes and its
\* results are added to the ones in memory; output keeps the results of
\* every test that was executed
Go_phase ==
    /\ pc = "go"
    /\ i < Len(PhaseRuns("execute"))
    /\ \E outs \in [1..tests -> RunOutcomes] :
          /\ results' = results \o RunResults(1, outs)
          /\ output' = output \o RunResults(1, outs)
    /\ ops' = Append(ops, PhaseRuns("execute")[i + 1])
    /\ i' = i + 1
    /\ UNCHANGED <<pc, status, stepYaml, resultsYaml, saveFrame, input>>

\* the next phase execution raises
Go_raise ==
    /\ pc = "go"
    /\ i < Len(PhaseRuns("execute"))
    /\ pc' = "raised"
    /\ UNCHANGED <<i, ops, status, results, stepYaml, resultsYaml, saveFrame,
                   input, output>>

\* self.status('done')
Go_status ==
    /\ pc = "go"
    /\ i = Len(PhaseRuns("execute"))
    /\ status' = [status EXCEPT !["execute"] = "done"]
    /\ pc' = "save"
    /\ UNCHANGED <<i, ops, results, stepYaml, resultsYaml, saveFrame, input,
                   output>>

\* Execute.save: super().save() writes the status of the step
Save_step ==
    /\ pc = "save"
    /\ stepYaml' = [stepYaml EXCEPT !["execute"] = status["execute"]]
    /\ pc' = "write"
    /\ UNCHANGED <<i, ops, status, results, resultsYaml, saveFrame, input,
                   output>>

\* Execute.save: self.write('results.yaml', ...)
Save_results ==
    /\ pc = "write"
    /\ resultsYaml' = [exists |-> TRUE, data |-> ResultsDict(results)]
    /\ pc' = "returned"
    /\ UNCHANGED <<i, ops, status, results, stepYaml, saveFrame, input,
                   output>>

\* the process is killed between two statements of go()
Kill ==
    /\ pc \in {"go", "save", "write"}
    /\ pc' = "killed"
    /\ UNCHANGED <<i, ops, status, results, stepYaml, resultsYaml, saveFrame,
                   input, output>>

\* a new process loads the step: Step.load and Execute.load
Reload ==
    /\ pc \in {"killed", "raised", "returned"}
    /\ status' = [status EXCEPT !["execute"] = Step_load("execute")]
    /\ results' = Execute_load
    /\ pc' = IF pc = "returned" THEN "reloaded" ELSE "resumed"
    /\ UNCHANGED <<i, ops, stepYaml, resultsYaml, saveFrame, input, output>>

\* the execute step of a plan with guests, after wake() in a new workdir
InitSave ==
    /\ steps = StepNames
    /\ opt = [dry |-> FALSE, executeDry |-> FALSE, remove |-> FALSE]
    /\ data = [execute |-> 1, finish |-> <<>>]
    /\ status = [s \in StepNames |-> "todo"]
    /\ phases = [s \in StepNames |-> IF s = "execute" THEN <<1>> ELSE <<>>]
    /\ tests \in 0..MaxTests
    /\ guests \in {[g \in 1..n |-> "up"] : n \in 1..MaxGuests}
    /\ results = <<>>
    /\ stepYaml =
          [s \in StepNames |-> IF s = "execute" THEN "todo" ELSE "none"]
    /\ resultsYaml = [exists |-> TRUE, data |-> <<>>]
    /\ pc = "go"
    /\ i = 0
    /\ abort = FALSE
    /\ exc = NoExc
    /\ calls = <<>>
    /\ ops = <<>>
    /\ warned = {}
    /\ last = NoCall
    /\ plans = <<>>
    /\ exits = <<>>
    /\ plugins = NotChecked
    /\ RunIdle
    /\ input = <<>>
    /\ output = <<>>

NextSave ==
    \/ Go_phase
    \/ Go_raise
    \/ Go_status
    \/ Save_step
    \/ Save_results
    \/ Kill
    \/ Reload

SpecSave == InitSave /\ [][NextSave]_vars

\* the sequence holds an equal result
Holds(rs, r) == \E n \in DOMAIN rs : rs[n] = r

\* C32: at every point where the process can be killed during
\* Execute.go(), each file write taken as a step, a persisted status done
\* of the execute step comes with persisted results that hold the result
\* of every executed test.
C32_DoneHoldsResults ==
    stepYaml["execute"] = "done" =>
        /\ resultsYaml.exists
        /\ \A n \in DOMAIN output : Holds(resultsYaml.data, output[n])

\* the status is written and the results are not: killed there, the
\* resumed run finds the step done and no result, with one guest
C32_BetweenWritesReached ==
    /\ pc = "resumed"
    /\ Len(guests) = 1
    /\ status["execute"] = "done"
    /\ output # <<>>
    /\ results = <<>>

\* what does hold: with one guest, when go() has returned, the persisted
\* results are the executed ones
C32_ReturnedHoldsResults ==
    (pc \in {"returned", "reloaded"} /\ Len(guests) = 1) =>
        /\ stepYaml["execute"] = "done"
        /\ resultsYaml.data = output

\* C33: Execute.save() followed by Execute.load() restores as many results
\* as the step held in memory, one for each saved result with its name and
\* outcome, also when two results carry the same test name.
C33_SaveLoadRestoresAll ==
    pc = "reloaded" =>
        /\ Len(results) = Len(output)
        /\ \A n \in DOMAIN output : Holds(results, output[n])

\* one test ran on two guests: two results were saved, one is loaded
C33_SameNameReached ==
    /\ pc = "reloaded"
    /\ tests = 1
    /\ Len(guests) = 2
    /\ Len(output) = 2
    /\ Len(results) = 1

\* what does hold: results of different names are all restored
C33_DistinctNamesRestored ==
    (pc = "reloaded"
        /\ \A n, k \in DOMAIN output :
              output[n].name = output[k].name => n = k) =>
        results = output

\* ------------------------------------------- Result.export, Execute.load

\* data['log']: no key, a string or a list of strings
Logs ==
    {[type |-> "absent", items |-> <<>>],
     [type |-> "str", items |-> <<"output.txt">>],
     [type |-> "list", items |-> <<>>],
     [type |-> "list", items |-> <<"output.txt", "journal.txt">>]}

\* tmt.utils.listify(data['log']), [] for the KeyError
Listify(log) == [type |-> "list", items |-> log.items]

\* data.get('duration'): None, the empty string or a time
NoDuration == [type |-> "none", text |-> "None"]

Durations ==
    {NoDuration, [type |-> "str", text |-> ""],
     [type |-> "str", text |-> "00:00:01"]}

\* data['ids']: no key, an empty dictionary or one with an id
NoIds == [present |-> FALSE, items |-> {}]

IdDicts ==
    {NoIds, [present |-> TRUE, items |-> {}],
     [present |-> TRUE, items |-> {<<"id", "some-id">>}]}

\* {ID_KEY: test.id} and the keys of EXTRA_RESULT_IDENTIFICATION_KEYS
TestIds ==
    {<<"id", "test.id">>, <<"extra-nitrate", "None">>,
     <<"extra-task", "None">>}

\* the constructor did not return
NoResult ==
    [raised |-> "SpecificationError", name |-> "none", result |-> "none",
     note |-> NoNote, log |-> Listify(CHOOSE log \in Logs : TRUE),
     duration |-> NoDuration, ids |-> {}]

\* Result.__init__(data, name, test) with the log, the duration and the ids
Result_new(in) ==
    LET made == Result_init([test |-> in.test, name |-> in.name,
                             result |-> in.result, note |-> in.note])
    IN  IF made.raised # "none" THEN [NoResult EXCEPT !.raised = made.raised]
        ELSE [raised |-> "none", name |-> made.name, result |-> made.result,
              note |-> made.note, log |-> Listify(in.log),
              duration |-> in.duration,
              ids |-> IF in.test.given THEN TestIds ELSE in.ids.items]

\* a key that export() leaves out
AbsentNote == [type |-> "absent", parts |-> <<>>]

AbsentDuration == [type |-> "absent", text |-> "None"]

\* Result.export(): result and log, and the note, the duration and the
\* ids that are not empty
Result_export(result) ==
    [result |-> result.result, log |-> result.log,
     note |-> IF result.note.parts # <<>> THEN result.note ELSE AbsentNote,
     duration |-> IF result.duration.type = "str" /\ result.duration.text # ""
                  THEN result.duration ELSE AbsentDuration,
     ids |-> IF result.ids # {}
             THEN [present |-> TRUE, items |-> result.ids] ELSE NoIds]

\* dict.get(key) of the exported data
Get(value, none) == IF value.type = "absent" THEN none ELSE value

Loaded_interpreted(name, exported, test) ==
    Result_new([test |-> test, name |-> name, result |-> exported.result,
                note |-> Get(exported.note, NoNote), log |-> exported.log,
                duration |-> Get(exported.duration, NoDuration),
                ids |-> exported.ids])

\* Execute.load: tmt.Result(data, name=test), for a key of results.yaml
\* and the data under it; no Test is given
Loaded(name, exported, test) ==
    Result_new([test |-> [given |-> FALSE, result |-> "none"],
                name |-> name, result |-> exported.result,
                note |-> Get(exported.note, NoNote), log |-> exported.log,
                duration |-> Get(exported.duration, NoDuration),
                ids |-> exported.ids])

\* the arguments a Result is constructed from
ExportInputs ==
    {in \in [test : [given : BOOLEAN,
                     result : {"none", "custom", "xfail", "warn"}],
             name : {"none", "/test"},
             result : Outcomes,
             note : Notes,
             log : Logs,
             duration : Durations,
             ids : IdDicts] :
        /\ ~in.test.given => in.test.result = "none"
        /\ in.test.given => in.ids = NoIds}

\* the result is constructed and exported, as Execute.save does
Export ==
    /\ pc = "export"
    /\ LET original == Result_new(input)
       IN  IF original.raised # "none"
           THEN /\ pc' = "raised"
                /\ UNCHANGED output
           ELSE /\ pc' = "exported"
                /\ output' = [original |-> original,
                              exported |-> Result_export(original),
                              loaded |-> NoResult]
    /\ UNCHANGED functionFrame

\* the result is rebuilt from the exported data, as Execute.load does
Load ==
    /\ pc = "exported"
    /\ output' = [output EXCEPT
                     !.loaded = Loaded(output.original.name, output.exported,
                                       input.test)]
    /\ pc' = "returned"
    /\ UNCHANGED functionFrame

InitExport ==
    /\ FunctionIdle
    /\ pc = "export"
    /\ input \in ExportInputs
    /\ output = [original |-> NoResult, exported |-> Result_export(NoResult),
                 loaded |-> NoResult]

NextExport == Export \/ Load

SpecExport == InitExport /\ [][NextExport]_vars

\* C34 as stated: a Result written by export() and rebuilt by Execute.load
\* has the outcome, note, log, duration and ids of the original.
C34_RoundTripSame ==
    pc = "returned" => output.loaded = output.original

\* an empty note is rebuilt as None
C34_EmptyNoteReached ==
    /\ pc = "returned"
    /\ output.original.note = [type |-> "str", parts |-> <<>>]
    /\ output.loaded.note = NoNote
    /\ output.loaded.raised = "none"

\* the note or the duration, None if it is empty
Kept(value, none) ==
    IF value \in {[type |-> "str", parts |-> <<>>],
                  [type |-> "list", parts |-> <<>>],
                  [type |-> "str", text |-> ""]}
    THEN none ELSE value

\* C34 amended: a Result written by export() and rebuilt by Execute.load
\* has the name, outcome, log and ids of the original, and its note and
\* duration, None standing for an empty note or duration; an outcome
\* rewritten by xfail or by an outcome of the test is not rewritten again
\* and its note is not extended again.
C34_RoundTrip ==
    pc = "returned" =>
        /\ output.loaded.raised = "none"
        /\ output.loaded.name = output.original.name
        /\ output.loaded.result = output.original.result
        /\ output.loaded.log = output.original.log
        /\ output.loaded.ids = output.original.ids
        /\ output.loaded.note = Kept(output.original.note, NoNote)
        /\ output.loaded.duration
              = Kept(output.original.duration, NoDuration)

\* a passed test expected to fail: fail with the note of the raw outcome,
\* both before and after the round trip
C34_Witness ==
    /\ pc = "returned"
    /\ input.test = [given |-> TRUE, result |-> "xfail"]
    /\ input.result = "pass"
    /\ input.note = [type |-> "str", parts |-> <<"note">>]
    /\ output.original.result = "fail"
    /\ output.loaded.result = "fail"
    /\ output.loaded.note = output.original.note
    /\ output.loaded.ids = TestIds

\* ------------------------------------------------ Execute.go, no guests

\* execute.go() is called on a step that is not done, with no guest
ExecuteGoesWithoutGuests ==
    /\ calls' # calls
    /\ last'.op = "go"
    /\ last'.step = "execute"
    /\ last'.before # "done"
    /\ guests = <<>>

\* C35: Execute.go() on a step that is not done, with no provisioned
\* guest, raises an ExecuteError, executes no phase, and leaves the status
\* and the results, in memory and persisted, as they were.
C35_NoGuestsRaises ==
    [][ExecuteGoesWithoutGuests =>
        /\ last'.raised = "ExecuteError"
        /\ ops' = ops
        /\ status' = status
        /\ status'.execute # "done"
        /\ results' = results
        /\ stepYaml' = stepYaml
        /\ resultsYaml' = resultsYaml]_vars

\* go() of the woken execute step raised for the lack of guests
C35_Witness ==
    /\ pc = "step"
    /\ last = [op |-> "go", step |-> "execute", raised |-> "ExecuteError",
               before |-> "todo"]
    /\ guests = <<>>
    /\ tests > 0
    /\ phases.execute # <<>>
    /\ status.execute = "todo"
    /\ stepYaml.execute = "todo"
    /\ ops = <<>>

\* --------------------------------------------- Plan.go, abort before go

\* C36: when Plan.go ends because wake() of an enabled step raised a
\* SpecificationError or because of a stand-alone conflict, go() was
\* invoked on no step of the plan, finish included, also when finish is
\* enabled.
C36_NoGoAfterWakeAbort ==
    (exc.op \in {"wake", "standalone"}) =>
        /\ pc = "raised"
        /\ \A n \in DOMAIN calls : calls[n].op # "go"
        /\ ops = <<>>
        /\ \A s \in StepNames : status[s] # "done"

\* wake() of the enabled execute step raised and finish is enabled
C36_Witness ==
    /\ pc = "raised"
    /\ exc = Raise("SpecificationError", "execute", "wake")
    /\ {"execute", "finish"} \subseteq steps
    /\ calls # <<>>
    /\ \A n \in DOMAIN calls : calls[n].op = "wake"

\* the stand-alone conflict with finish enabled and woken up
C36_ConflictReached ==
    /\ pc = "raised"
    /\ exc = Raise("GeneralError", "none", "standalone")
    /\ "finish" \in steps
    /\ Len(calls) = Len(STEPS)
    /\ \A n \in DOMAIN calls : calls[n].op = "wake"

\* ---------------------------------------------- Run.go, skipped stages

\* the step options with skipped stages: a step enabled by its subcommand
\* or none, the range options, and up to MaxSkip skipped stages
SkipOptions ==
    [where : {NoOptions.where},
     provisionDry : {NoOptions.provisionDry},
     planOption : {NoOptions.planOption},
     match : {NoOptions.match},
     enabled : {NoOptions.enabled},
     steps : {{}} \cup {{e} : e \in StepNames},
     all : BOOLEAN,
     since : {"none", "discover", "prepare"},
     until : {"none", "execute", "finish"},
     after : {"none", "provision"},
     before : {"none", "report"},
     skip : {S \in SUBSET StepNames : Cardinality(S) <= MaxSkip},
     environmentFiles : {NoOptions.environmentFiles},
     environment : {NoOptions.environment}]

\* the run.yaml of an earlier run, with the steps it had enabled
SkipFiles ==
    [exists : BOOLEAN, root : {TRUE}, plans : {TreePlans},
     steps : {{}, {"discover"}, {"execute", "report"}, StepNames},
     environment : {<<>>}, remove : {FALSE}]

\* Run.go in a new workdir or in the workdir of an earlier run, about to
\* load the run
InitSkip ==
    /\ cli \in SkipOptions
    /\ runYaml \in SkipFiles
    /\ steps = cli.steps
    /\ opt = [dry |-> FALSE, executeDry |-> FALSE, remove |-> FALSE]
    /\ run = Workdir_load(NoRun)
    /\ went = <<Event("workdir", "none", FALSE)>>
    /\ pc = "load"
    /\ data = [execute |-> 1, finish |-> <<>>]
    /\ status = [s \in StepNames |-> "todo"]
    /\ phases = [s \in StepNames |-> <<>>]
    /\ tests = 0
    /\ guests = <<>>
    /\ results = <<>>
    /\ stepYaml = [s \in StepNames |-> "none"]
    /\ resultsYaml = [exists |-> FALSE, data |-> <<>>]
    /\ i = 0
    /\ abort = FALSE
    /\ exc = NoExc
    /\ calls = <<>>
    /\ ops = <<>>
    /\ warned = {}
    /\ last = NoCall
    /\ plans = <<>>
    /\ exits = <<>>
    /\ plugins = NotChecked
    /\ input = <<>>
    /\ output = <<>>

NextSkip == Run_load \/ Run_select

SpecSkip == InitSkip /\ [][NextSkip]_vars

\* C37 as stated: after the step selection of Run.go no stage named in
\* skip is in the set of enabled steps.
C37_NoSkippedStepEnabled ==
    pc = "plans" => steps \cap cli.skip = {}

\* the stage is skipped and enabled by its subcommand: it stays enabled
C37_ExplicitReached ==
    /\ pc = "plans"
    /\ cli.steps = {"discover"}
    /\ cli.skip = {"discover"}
    /\ ~cli.all
    /\ "discover" \in steps

\* C37 amended: after the step selection of Run.go a stage named in skip
\* is in the set of enabled steps only if it was enabled explicitly on the
\* command line; the selection enables none, and the persisted steps are
\* not restored when skip is given.
C37_SkippedOnlyIfExplicit ==
    pc = "plans" =>
        /\ steps \cap cli.skip \subseteq cli.steps
        /\ cli.skip # {} =>
              \A s \in steps \ cli.steps :
                  \E n \in First(cli)..Last(cli) : STEPS[n] = s

\* all steps of the earlier run and of the range but the skipped one
C37_Witness ==
    /\ pc = "plans"
    /\ runYaml.exists
    /\ runYaml.steps = StepNames
    /\ cli.all
    /\ cli.steps = {}
    /\ cli.skip = {"report"}
    /\ steps = StepNames \ {"report"}

\* ---------------------------------------------------------------------
\* Run.go: the run is saved before the first plan goes

\* the events of Run.go before the first plan.go()
BeforeFirstGo ==
    IF GoEvents = <<>>
    THEN went
    ELSE SubSeq(went, 1,
                (CHOOSE n \in DOMAIN went :
                    /\ went[n].op = "go"
                    /\ \A m \in 1..(n - 1) : went[m].op # "go") - 1)

\* C38: once go() of a plan of the run is invoked, and until Run.finish
\* is over, run.yaml holds the root, the names of the plans of the run,
\* the enabled steps, the environment and the remove flag of this run, and
\* it was written before the first go()
C38_SavedBeforeFirstGo ==
    (GoEvents # <<>> /\ pc \in {"plan", "finish", "raised"}) =>
        /\ runYaml.exists
        /\ runYaml.root = (cli.where # "noroot")
        /\ runYaml.plans = run.plans
        /\ runYaml.steps = steps
        /\ runYaml.environment
               = Run_environment(run.environment, cli.environmentFiles,
                                 cli.environment)
        /\ runYaml.remove = opt.remove
        /\ \E n \in DOMAIN BeforeFirstGo : BeforeFirstGo[n].op = "save"

\* go() of the first plan raised in a new workdir: the run that is over
\* left its plans and its steps in run.yaml
C38_Witness ==
    /\ pc = "raised"
    /\ Len(GoEvents) = 1
    /\ GoEvents[1].raised
    /\ Len(run.plans) > 1
    /\ runYaml.plans = run.plans
    /\ runYaml.steps = steps
    /\ steps # {}

\* a run in the workdir of an earlier run wrote other plans and other
\* steps than it found
C38_RewrittenReached ==
    /\ GoEvents # <<>>
    /\ cli.planOption
    /\ runYaml.plans # <<>>
    /\ runYaml.steps \notin {{}, {"prepare"}}
    /\ Len(GoEvents) = Len(run.plans)
    /\ pc = "finish"

\* ---------------------------------------------------------------------
\* Status.get_overall_plan_status

IsLastStep_never(k, n) == FALSE

\* i + 1 == len(steps)
IsLastStep(k, n) == k = n

\* the loop of get_overall_plan_status from index k down over the
\* enabled steps: the first step found done ends it
RECURSIVE Status_scan(_, _)
Status_scan(names, k) ==
    IF k = 0 THEN "todo"
    ELSE IF status[names[k]] = "done"
         THEN IF IsLastStep(k, Len(names)) THEN "done" ELSE names[k]
         ELSE Status_scan(names, k - 1)

\* Status.get_overall_plan_status(plan)
Status_get_overall_plan_status ==
    Status_scan(Plan_steps(TRUE, FALSE, {}), Len(Plan_steps(TRUE, FALSE, {})))

\* the status is asked for
Get_overall_plan_status ==
    /\ pc = "status"
    /\ output' = Status_get_overall_plan_status
    /\ pc' = "returned"
    /\ UNCHANGED <<steps, opt, data, objVars, i, abort, exc, calls, ops,
                   warned, last, plans, exits, plugins, cli, run, runYaml,
                   went, input>>

\* a plan of a workdir, with any steps enabled and any of its steps done
InitStatus ==
    /\ steps \in SUBSET StepNames
    /\ status \in [StepNames -> {"todo", "done"}]
    /\ pc = "status"
    /\ opt = [dry |-> FALSE, executeDry |-> FALSE, remove |-> FALSE]
    /\ data = [execute |-> 1, finish |-> <<>>]
    /\ phases = [s \in StepNames |-> <<>>]
    /\ tests = 0
    /\ guests = <<>>
    /\ results = <<>>
    /\ stepYaml = [s \in StepNames |-> "none"]
    /\ resultsYaml = [exists |-> FALSE, data |-> <<>>]
    /\ i = 0
    /\ abort = FALSE
    /\ exc = NoExc
    /\ calls = <<>>
    /\ ops = <<>>
    /\ warned = {}
    /\ last = NoCall
    /\ plans = <<>>
    /\ exits = <<>>
    /\ plugins = NotChecked
    /\ RunIdle

NextStatus == Get_overall_plan_status

SpecStatus == InitStatus /\ [][NextStatus]_vars

\* the place of a step in the order of the stages
StageIndex(s) == CHOOSE n \in DOMAIN STEPS : STEPS[n] = s

\* the enabled steps whose status is done
DoneSteps == {s \in steps : status[s] = "done"}

\* the step of a non-empty set of steps that is latest in the order of
\* the stages
Latest(S) == CHOOSE s \in S : \A t \in S : StageIndex(t) <= StageIndex(s)

\* C39: get_overall_plan_status returns "done" if and only if the last
\* enabled step is done; otherwise it returns the name of the latest
\* enabled step that is done, and "todo" when no enabled step is done
C39_OverallPlanStatus ==
    pc = "returned" =>
        /\ output = "done"
              <=> (steps # {} /\ status[Latest(steps)] = "done")
        /\ output # "done" =>
              output = IF DoneSteps = {} THEN "todo" ELSE Latest(DoneSteps)

\* the last enabled step is not done, an earlier one is, and a later
\* step that is not enabled is done: the name of the earlier one is
\* returned
C39_Witness ==
    /\ pc = "returned"
    /\ output = "prepare"
    /\ steps = {"discover", "prepare", "execute"}
    /\ status["discover"] = "done"
    /\ status["finish"] = "done"

\* the last enabled step is done while an earlier one is not
C39_DoneReached ==
    /\ pc = "returned"
    /\ output = "done"
    /\ \E s \in steps : status[s] = "todo"

\* steps are done but none of the enabled ones
C39_TodoReached ==
    /\ pc = "returned"
    /\ output = "todo"
    /\ steps # {}
    /\ \E s \in StepNames : status[s] = "done"
====
